---- MODULE Spec2Model ----
(***************************************************************************)
(* Verification model of UGParameterEstimator: the evaluator cache          *)
(* (LocalEvaluator / ClusterEvaluator), Optimizer.getJacobiMatrix, the      *)
(* three line searches and the optimizer run loops.                        *)
(*                                                                         *)
(* Real numbers are modelled exactly: step lengths are rationals           *)
(* <<numerator, denominator>>, residual norms are integers.                *)
(***************************************************************************)
EXTENDS Integers, Sequences, FiniteSets, TLC

(***************************************************************************)
(* Bounds of the model                                                     *)
(***************************************************************************)
\* number of parameter vectors passed to the evaluator over all evaluate
\* calls of a run of the model (a call with an empty list counts as one)
MaxVectors == 3

\* parallel_evaluations of the parallel line searches (default 10)
ParallelEvaluations == 3
\* max_iterations of the parallel line searches (defaults 3 and 2)
LsMaxIterations == 3

(***************************************************************************)
(* Exact rational numbers <<numerator, denominator>>, denominator > 0,     *)
(* in lowest terms                                                         *)
(***************************************************************************)
Abs(x) == IF x < 0 THEN -x ELSE x

RECURSIVE Gcd(_, _)
Gcd(a, b) == IF b = 0 THEN a ELSE Gcd(b, a % b)

RNorm(n, d) ==
    LET g == Gcd(Abs(n), d) IN IF n = 0 THEN <<0, 1>> ELSE <<n \div g, d \div g>>

RInt(n) == <<n, 1>>
RAdd(a, b) == RNorm(a[1] * b[2] + b[1] * a[2], a[2] * b[2])
RSub(a, b) == RNorm(a[1] * b[2] - b[1] * a[2], a[2] * b[2])
RMulInt(a, n) == RNorm(a[1] * n, a[2])
RDivInt(a, n) == RNorm(a[1], a[2] * n)
RLess(a, b) == a[1] * b[2] < b[1] * a[2]
RMax(a, b) == IF RLess(a, b) THEN b ELSE a

RECURSIVE Pow(_, _)
Pow(b, e) == IF e = 0 THEN 1 ELSE b * Pow(b, e - 1)

\* 2^e for an integer exponent e
RPow2(e) == IF e >= 0 THEN <<Pow(2, e), 1>> ELSE <<1, Pow(2, -e)>>

(***************************************************************************)
(* Python's None for an evaluation's parameters / eval_id                  *)
(***************************************************************************)
NoParameters == <<"None">>
NoId == -1

RECURSIVE SeqsUpTo(_, _)
SeqsUpTo(S, n) ==
    IF n = 0 THEN {<<>>}
    ELSE LET shorter == SeqsUpTo(S, n - 1)
         IN shorter \cup {Append(s, x) : s \in {t \in shorter : Len(t) = n - 1}, x \in S}

(***************************************************************************)
(* Parameter management (parameterManager.py)                              *)
(***************************************************************************)
\* The ParameterManager of the model: a ScaledParameter with both bounds
\* and a DirectParameter with a lower bound only (maximumValue is None).
HasNoBound == -1000
Parameters ==
    << [kind |-> "Scaled", startvalue |-> 2, minimumValue |-> 2, maximumValue |-> 6],
       [kind |-> "Direct", startvalue |-> 1, minimumValue |-> 1, maximumValue |-> HasNoBound] >>

optimizationSpaceUpperBound(param) ==
    IF param.kind = "Scaled" THEN param.maximumValue \div param.startvalue
    ELSE param.maximumValue

optimizationSpaceLowerBound(param) ==
    IF param.kind = "Scaled" THEN param.minimumValue \div param.startvalue
    ELSE param.minimumValue

\* isValidOptimizationSpaceParameter rejecting a value that lies on a bound
isValidOptimizationSpaceParameterStrict(param, value) ==
    /\ ~(param.maximumValue # HasNoBound /\ optimizationSpaceUpperBound(param) <= value)
    /\ ~(param.minimumValue # HasNoBound /\ optimizationSpaceLowerBound(param) >= value)

\* Parameter.isValidOptimizationSpaceParameter
isValidOptimizationSpaceParameter(param, value) ==
    /\ ~(param.maximumValue # HasNoBound /\ optimizationSpaceUpperBound(param) < value)
    /\ ~(param.minimumValue # HasNoBound /\ optimizationSpaceLowerBound(param) > value)

\* the value a valid optimization-space coordinate is transformed to
getTransformedParameter(param, value) ==
    IF param.kind = "Scaled" THEN param.startvalue * value ELSE value

\* ParameterManager.getTransformedParameters: None as soon as one
\* coordinate is rejected by its parameter
getTransformedParameters(beta) ==
    IF \E i \in 1..Len(Parameters) : ~isValidOptimizationSpaceParameter(Parameters[i], beta[i])
    THEN NoParameters
    ELSE [i \in 1..Len(Parameters) |-> getTransformedParameter(Parameters[i], beta[i])]

(***************************************************************************)
(* The external simulation (ugshell + evaluation_type.parse): a            *)
(* deterministic black box of the parameter file, which holds the          *)
(* transformed parameters and the fixed parameters.                        *)
(***************************************************************************)
\* the UG run finishes unless the second parameter is 5
SimFinishes(parameters, fixed) == parameters[2] # 5

SimMeasurement(parameters, fixed) == 10 * parameters[1] + parameters[2] + 100 * fixed

\* evaluation_type.parse never returns None: a parsed Evaluation or an
\* ErroredEvaluation carrying the parameters and the evaluation id
parse(evaluation_id, parameters, fixed, oid) ==
    IF SimFinishes(parameters, fixed)
    THEN [oid |-> oid, kind |-> "ok", parameters |-> parameters, eval_id |-> evaluation_id,
          data |-> SimMeasurement(parameters, fixed), reason |-> ""]
    ELSE [oid |-> oid, kind |-> "err", parameters |-> parameters, eval_id |-> evaluation_id,
          data |-> 0, reason |-> "Evaluation did not finish correctly"]

ErroredEvaluation(parameters, reason, oid) ==
    [oid |-> oid, kind |-> "err", parameters |-> parameters, eval_id |-> NoId,
     data |-> 0, reason |-> reason]

\* the optimization-space vectors callers pass to evaluate
InputVectors == { <<1, 1>>, <<3, 5>>, <<4, 1>>, <<1, 0>> }
FixedValues == {0, 1}
EvaluatorKinds == {"Local", "Cluster"}

VARIABLES
    evKind,                   \* LocalEvaluator or ClusterEvaluator
    cache,                    \* Evaluator.cache
    id,                       \* self.id, the next evaluation id
    total_evaluation_count,
    serial_evaluation_count,
    cached_evaluation_count,
    fixedparameters,          \* the value of the evaluator's fixedparameters mapping
    written,                  \* parameter files written by the output adapter
    nextOid,                  \* identity of the next Evaluation object created
    calls,                    \* evaluate calls made so far
    used,                     \* parameter vectors passed to evaluate so far
    lastCall                  \* the last evaluate call: its arguments, what it did, its result

vars_ev == << evKind, cache, id, total_evaluation_count, serial_evaluation_count,
              cached_evaluation_count, fixedparameters, written, nextOid, calls, used,
              lastCall >>

(***************************************************************************)
(* Line searches (lineSearches.py)                                         *)
(***************************************************************************)
\* float("inf"): larger than every residual norm of the model
Inf == 999999
\* a trial whose evaluation is an ErroredEvaluation
Errored == -1
\* residual norms 0.5*r.r evaluations of the model can have
NormValues == {0, 1, 2}
TrialOutcomes == NormValues \cup {Errored}
\* values of grad.dot(stepdirection)
GradDotDirValues == {-1000, 0, 1000}
LineSearchKinds == {"Linear", "Logarithmic", "Backtracking"}

\* c of the first Wolfe condition, 1e-3 in all three line searches
c_num == 1
c_den == 1000
\* BacktrackingLineSearch.rho = 0.5 and BacktrackingLineSearch.max_iterations
rho_den == 2
BacktrackingMaxIterations == 15
\* LogarithmicParallelLineSearch.highest_power
highest_power_init == 0
\* size of the logarithmic window: the exponents of np.logspace are whole
\* numbers when size = parallel_evaluations - 1
size == ParallelEvaluations - 1

VARIABLES
    lsKind,            \* the LineSearch class in use
    r_dot_r_half,      \* 0.5*r.dot(r) of the residual passed to doLineSearch
    grad_dot_dir,      \* grad.transpose().dot(stepdirection)
    low, top,          \* LinearParallelLineSearch: the search window
    l,                 \* the round counter
    overall_minnorm,   \* LinearParallelLineSearch: lowest norm of all rounds
    overall_minalpha,  \*   and the step length stored with it
    highest_power,     \* LogarithmicParallelLineSearch: top exponent of the window
    alpha,             \* BacktrackingLineSearch: the current step length
    round_min,         \* << alphas[minindex], minnorm >> of the last round
    lsReturn,          \* doLineSearch: running, or what it returned / raised
    max_iterations     \* self.max_iterations of the parallel line searches

vars_ls == << lsKind, max_iterations, r_dot_r_half, grad_dot_dir, low, top, l, overall_minnorm,
              overall_minalpha, highest_power, alpha, round_min, lsReturn >>

(***************************************************************************)
(* Run recorder (result.py)                                                *)
(***************************************************************************)
VARIABLES
    iterations,        \* Result.iterations: the committed records
    currentIteration,  \* Result.currentIteration: metric name -> value
    logentries         \* Result.logentries: the report lines of the run

vars_rec == << iterations, currentIteration, logentries >>

(***************************************************************************)
(* Optimizer runs (gaussNewtonOptimizer.py, gradDescOptimizer.py,          *)
(* levMarOptimizer.py, gainedLevMarOptimizer.py)                           *)
(***************************************************************************)
\* iterations an optimizer may be given (maxiterations)
MaxIterations == 2
\* LevMarOptimizer: trial points per ladder batch (P) and ladder batches
\* (P_iteration_count)
P == 2
P_iteration_count == 2
\* GainedLevMarOptimizer: damping values tried besides the current one
presteps == 1

VARIABLES
    variant,           \* which optimizer runs
    linesearchmethod,  \* its line search ("None" for the Levenberg-Marquardt ones)
    differencing,      \* Optimizer.differencing
    maxiterations,     \* self.maxiterations
    weightGiven,       \* len(evaluator.weight) > 0
    n,                 \* len(targetdata)
    pc,                \* where run() stands
    loopIndex,         \* the value `for i in range(maxiterations)` gave last
    i,                 \* the local i (Unbound before its first assignment)
    S,                 \* residual norm of the current iteration
    first_S, last_S,   \* -1 until assigned
    new_S,             \* norm of the trial point that became the guess (-1: none)
    lam,               \* LevMar: lam = initial_lam * nu**lam
    accepted_lam,      \* LevMar: damping of the accepted trial point, as exponent
    zl,                \* LevMar: ladder batch index
    jacobi_evaluations, \* getJacobiMatrix: the batch, TRUE where the evaluation finished
    jacobi_result,     \* getJacobiMatrix: what it returned last
    batches,           \* evaluate calls of the current iteration
    costs,             \* LevMar, GainedLevMar: the costs of the last trial batch
    nextguess,         \*   and the place in it of the point taken as nextguess (0: none)
    returned,          \* "running", or how run() ended
    ending             \* history: the path on which run() ended

vars_cfg == << variant, linesearchmethod, differencing, maxiterations, weightGiven, n >>

vars_run == << pc, loopIndex, i, S, first_S, last_S, new_S, lam, accepted_lam, zl,
               jacobi_evaluations, jacobi_result, returned, ending, costs, nextguess >>

vars_opt == << vars_cfg, vars_run, batches >>

(***************************************************************************)
(* Measurements (generic_evaluation.py, freesurface_evaluation.py)         *)
(***************************************************************************)
\* longest time series of a measurement of the model
MaxTimes == 3
\* FreeSurfaceEvaluation: len(self.locations)
LocationCount == 2

VARIABLES
    measurement,       \* a Measurement: its class, self.times and self.data
    toFormat,          \* the target Measurement, whose format is asked for
    arrayLike          \* what measurement.getNumpyArrayLike(target) returned

vars_res == << measurement, toFormat, arrayLike >>

\* commits, log entries and caller objects of a Result used on its own
MaxCommits == 2
MaxLogEntries == 1
CallerObjects == 1

VARIABLES
    filename,          \* Result.filename ("None": constructed without one)
    metadata,          \* Result.metadata: name -> object
    heap,              \* the objects the recorder and its caller hold: id -> content
    error              \* the exception the last call on the Result raised

vars_obj == << filename, metadata, heap, error >>

VARIABLES
    epsilon,                      \* the epsilon given to Optimizer.__init__
    constructed,                  \* how Optimizer.__init__ ended
    finite_differencing_epsilon,  \* self.finite_differencing_epsilon
    point,                        \* the point getJacobiMatrix is called at
    jacobi_batch,                 \* the list given to evaluator.evaluate
    evaluate_calls                \* evaluate calls getJacobiMatrix made

vars_jac == << epsilon, constructed, finite_differencing_epsilon, point, jacobi_batch,
               evaluate_calls >>

\* Evaluator objects of one process
EvaluatorCount == 2

VARIABLES
    class_cache,       \* Evaluator.cache, the attribute of the class
    evaluators,        \* the attributes each Evaluator object holds itself
    object_count,      \* Evaluation objects created in the process so far
    spent,             \* vectors passed to the evaluate calls so far
    lastOp             \* the last call on an Evaluator object

vars_two == << class_cache, evaluators, object_count, spent, lastOp >>

vars == << vars_ev, vars_ls, vars_rec, vars_opt, vars_res, vars_obj, vars_jac, vars_two >>

\* the value of a metric whose content the model does not keep (the
\* residual norms are kept)
Recorded == "recorded"

\* Result.addMetric(name, value) on the metrics m
addMetric(m, name, value) == (name :> value) @@ m

InitRecorder ==
    /\ iterations = <<>>
    /\ currentIteration = <<>>
    /\ logentries = <<>>
    /\ filename = "results.pkl"
    /\ metadata = <<>>
    /\ heap = <<>>
    /\ error = "none"

(***************************************************************************)
(* Evaluator (evaluator.py)                                                *)
(***************************************************************************)
\* Evaluator.checkCache: the entries of the cache checkCache may return for
\* `parameters` (it returns the first one the set iteration meets, and
\* skips entries whose parameters are None); empty when it returns None.
\* consult = FALSE is the evaluator that never looks into its cache.
checkCache(c, parameters, consult) ==
    IF consult
    THEN {evaluation \in c : /\ evaluation.parameters # NoParameters
                             /\ evaluation.parameters = parameters}
    ELSE {}

\* Evaluator.handleNewEvaluations on the evaluator state st
handleNewEvaluations(st, evaluations) ==
    [st EXCEPT !.cache = st.cache \cup {evaluations[k] : k \in 1..Len(evaluations)},
               !.serial = st.serial + 1,
               !.total = st.total + Len(evaluations)]

\* the part of the evaluator an evaluate call reads and writes
EvaluatorState ==
    [cache |-> cache, id |-> id, total |-> total_evaluation_count,
     serial |-> serial_evaluation_count, cached |-> cached_evaluation_count,
     written |-> written, nextOid |-> nextOid, results |-> <<>>, dispatched |-> <<>>]

FreshEvaluatorState ==
    [cache |-> {}, id |-> 0, total |-> 0, serial |-> 0, cached |-> 0,
     written |-> {}, nextOid |-> 0, results |-> <<>>, dispatched |-> <<>>]

(***************************************************************************)
(* LocalEvaluator.evaluate (localEvaluator.py)                             *)
(***************************************************************************)
\* LocalStep with a failed simulation leaving no entry in the result list
LocalStepDroppingFailures(st, beta, transform, fixed, consult) ==
    LET parameters == IF transform THEN getTransformedParameters(beta) ELSE beta
        hits == checkCache(st.cache, parameters, consult)
        data == parse(st.id, parameters, fixed, st.nextOid)
        ran == [st EXCEPT !.written = st.written \cup
                                {[id |-> st.id, parameters |-> parameters, fixed |-> fixed]},
                          !.dispatched = Append(st.dispatched, parameters),
                          !.id = st.id + 1,
                          !.nextOid = st.nextOid + 1]
        handled == handleNewEvaluations(ran, <<data>>)
    IN  IF parameters = NoParameters
        THEN {[st EXCEPT !.results = Append(st.results,
                            ErroredEvaluation(NoParameters, "Infeasible parameters", st.nextOid)),
                         !.nextOid = st.nextOid + 1]}
        ELSE IF hits # {}
        THEN {[st EXCEPT !.results = Append(st.results, res),
                         !.cached = st.cached + 1] : res \in hits}
        ELSE IF data.kind = "err" THEN {ran}
        ELSE {[handled EXCEPT !.results = Append(handled.results, data)]}

\* one pass of the loop body `for beta in evaluationlist`; the set of
\* states it can end in (one per entry checkCache may return)
LocalStep(st, beta, transform, fixed, consult) ==
    LET parameters == IF transform THEN getTransformedParameters(beta) ELSE beta
        hits == checkCache(st.cache, parameters, consult)
        data == parse(st.id, parameters, fixed, st.nextOid)
        ran == [st EXCEPT !.written = st.written \cup
                                {[id |-> st.id, parameters |-> parameters, fixed |-> fixed]},
                          !.dispatched = Append(st.dispatched, parameters),
                          !.id = st.id + 1,
                          !.nextOid = st.nextOid + 1]
        handled == handleNewEvaluations(ran, <<data>>)
    IN  IF parameters = NoParameters
        THEN {[st EXCEPT !.results = Append(st.results,
                            ErroredEvaluation(NoParameters, "Infeasible parameters", st.nextOid)),
                         !.nextOid = st.nextOid + 1]}
        ELSE IF hits # {}
        THEN {[st EXCEPT !.results = Append(st.results, res),
                         !.cached = st.cached + 1] : res \in hits}
        ELSE {[handled EXCEPT !.results = Append(handled.results, data)]}

RECURSIVE LocalEvaluateFrom(_, _, _, _, _, _)
LocalEvaluateFrom(st, evaluationlist, j, transform, fixed, consult) ==
    IF j > Len(evaluationlist) THEN {st}
    ELSE UNION {LocalEvaluateFrom(st2, evaluationlist, j + 1, transform, fixed, consult) :
                    st2 \in LocalStep(st, evaluationlist[j], transform, fixed, consult)}

(***************************************************************************)
(* ClusterEvaluator.evaluate (clusterEvaluator.py)                         *)
(***************************************************************************)
\* results[j] is None: the job still has to be submitted
Pending(parameters) ==
    [oid |-> -1, kind |-> "pending", parameters |-> parameters, eval_id |-> NoId,
     data |-> 0, reason |-> ""]

\* first loop: transform, then look into the cache (before anything of
\* this batch is dispatched)
ClusterCheckStep(st, beta_j, transform, consult) ==
    LET parameters == IF transform THEN getTransformedParameters(beta_j) ELSE beta_j
        hits == checkCache(st.cache, parameters, consult)
    IN  IF parameters = NoParameters
        THEN {[st EXCEPT !.results = Append(st.results,
                            ErroredEvaluation(NoParameters, "Infeasible parameters", st.nextOid)),
                         !.nextOid = st.nextOid + 1]}
        ELSE IF hits # {}
        THEN {[st EXCEPT !.results = Append(st.results, res),
                         !.cached = st.cached + 1] : res \in hits}
        ELSE {[st EXCEPT !.results = Append(st.results, Pending(parameters))]}

RECURSIVE ClusterCheckFrom(_, _, _, _, _)
ClusterCheckFrom(st, evaluationlist, j, transform, consult) ==
    IF j > Len(evaluationlist) THEN {st}
    ELSE UNION {ClusterCheckFrom(st2, evaluationlist, j + 1, transform, consult) :
                    st2 \in ClusterCheckStep(st, evaluationlist[j], transform, consult)}

\* second and third loop: every job without a result gets the next id, its
\* parameter file is written and the job submitted; when all jobs have
\* finished its measurement is parsed into results[j]
RECURSIVE ClusterDispatchFrom(_, _, _)
ClusterDispatchFrom(st, j, fixed) ==
    IF j > Len(st.results) THEN st
    ELSE IF st.results[j].kind # "pending" THEN ClusterDispatchFrom(st, j + 1, fixed)
    ELSE LET parameters == st.results[j].parameters
             data == parse(st.id, parameters, fixed, st.nextOid)
         IN  ClusterDispatchFrom(
                 [st EXCEPT !.written = st.written \cup
                                {[id |-> st.id, parameters |-> parameters, fixed |-> fixed]},
                            !.dispatched = Append(st.dispatched, parameters),
                            !.id = st.id + 1,
                            !.nextOid = st.nextOid + 1,
                            !.results[j] = data],
                 j + 1, fixed)

\* the whole call, ending with handleNewEvaluations(results, tag)
ClusterEvaluateFrom(st, evaluationlist, transform, fixed, consult) ==
    { LET done == ClusterDispatchFrom(checked, 1, fixed)
      IN  handleNewEvaluations(done, done.results) :
        checked \in ClusterCheckFrom(st, evaluationlist, 1, transform, consult) }

(***************************************************************************)
(* The evaluator as a state machine                                        *)
(***************************************************************************)
NoCall ==
    [input |-> <<>>, transform |-> FALSE, fixed |-> 0, results |-> <<>>, dispatched |-> <<>>,
     cacheBefore |-> {}, idBefore |-> 0, totalBefore |-> 0, cachedBefore |-> 0,
     writtenBefore |-> {}]

InitEvaluator ==
    /\ evKind \in EvaluatorKinds
    /\ cache = {}
    /\ id = 0
    /\ total_evaluation_count = 0
    /\ serial_evaluation_count = 0
    /\ cached_evaluation_count = 0
    /\ fixedparameters = 0
    /\ written = {}
    /\ nextOid = 0
    /\ calls = 0
    /\ used = 0
    /\ lastCall = NoCall

\* what a call takes of the model's budget of vectors
Cost(evaluationlist) == IF evaluationlist = <<>> THEN 1 ELSE Len(evaluationlist)

\* the lists a caller can still pass
Batches == SeqsUpTo(InputVectors, MaxVectors - used)

\* the evaluator after an evaluate call that ended in state st
Returned(st, evaluationlist, transform) ==
    /\ cache' = st.cache
    /\ id' = st.id
    /\ total_evaluation_count' = st.total
    /\ serial_evaluation_count' = st.serial
    /\ cached_evaluation_count' = st.cached
    /\ written' = st.written
    /\ nextOid' = st.nextOid
    /\ calls' = calls + 1
    /\ used' = used + Cost(evaluationlist)
    /\ lastCall' = [input |-> evaluationlist, transform |-> transform,
                    fixed |-> fixedparameters, results |-> st.results,
                    dispatched |-> st.dispatched, cacheBefore |-> cache, idBefore |-> id,
                    totalBefore |-> total_evaluation_count,
                    cachedBefore |-> cached_evaluation_count, writtenBefore |-> written]
    /\ UNCHANGED << evKind, fixedparameters, vars_ls, vars_rec, vars_opt, vars_res, vars_obj, vars_jac, vars_two >>

\* LocalEvaluator.evaluate(evaluationlist, transform)
LocalEvaluate ==
    /\ evKind = "Local"
    /\ used < MaxVectors
    /\ \E evaluationlist \in Batches, transform \in BOOLEAN :
         \E st \in LocalEvaluateFrom(EvaluatorState, evaluationlist, 1, transform,
                                     fixedparameters, TRUE) :
            Returned(st, evaluationlist, transform)

\* ClusterEvaluator.evaluate(evaluationlist, transform)
ClusterEvaluate ==
    /\ evKind = "Cluster"
    /\ used < MaxVectors
    /\ \E evaluationlist \in Batches, transform \in BOOLEAN :
         \E st \in ClusterEvaluateFrom(EvaluatorState, evaluationlist, transform,
                                       fixedparameters, TRUE) :
            Returned(st, evaluationlist, transform)

\* the caller assigns the evaluator's public fixedparameters attribute
SetFixedParameters ==
    /\ used < MaxVectors
    /\ \E v \in FixedValues \ {fixedparameters} : fixedparameters' = v
    /\ UNCHANGED << evKind, cache, id, total_evaluation_count, serial_evaluation_count,
                    cached_evaluation_count, written, nextOid, calls, used, lastCall, vars_ls,
                    vars_rec, vars_opt, vars_res, vars_obj, vars_jac, vars_two >>

NextEvaluator ==
    \/ LocalEvaluate
    \/ ClusterEvaluate
    \/ SetFixedParameters


(***************************************************************************)
(* Several Evaluator objects: the class attributes and reset()             *)
(***************************************************************************)
EvaluatorObjects == 1..EvaluatorCount

\* an Evaluator object after its constructor: no attribute `cache` of its
\* own (own_cache), the counters read through to the class attributes 0,
\* LocalEvaluator.__init__ set self.id = 0; made: the Evaluation objects
\* dispatched through this object so far
NewEvaluator ==
    [own_cache |-> FALSE, cache |-> {}, id |-> 0, total |-> 0, serial |-> 0,
     cached |-> 0, made |-> {}]

NoOp == [kind |-> "none", by |-> 0, hits |-> {}]

InitEvaluators ==
    /\ class_cache = {}
    /\ evaluators = [k \in EvaluatorObjects |-> NewEvaluator]
    /\ object_count = 0
    /\ spent = 0
    /\ lastOp = NoOp

\* the set `self.cache` names on Evaluator object k: the attribute of the
\* object when it has one, the attribute of the class otherwise
SelfCache(k) ==
    IF evaluators[k].own_cache THEN evaluators[k].cache ELSE class_cache

\* the part of Evaluator object k an evaluate call reads and writes
ObjectState(k) ==
    [cache |-> SelfCache(k), id |-> evaluators[k].id, total |-> evaluators[k].total,
     serial |-> evaluators[k].serial, cached |-> evaluators[k].cached,
     written |-> {}, nextOid |-> object_count, results |-> <<>>, dispatched |-> <<>>]

\* LocalEvaluator.evaluate(evaluationlist, transform) on Evaluator object k:
\* self.cache.update changes the set in place, self.<counter> += 1 assigns
\* an attribute of the object
ObjectEvaluate ==
    /\ spent < MaxVectors
    /\ \E k \in EvaluatorObjects, transform \in BOOLEAN,
          evaluationlist \in SeqsUpTo(InputVectors, MaxVectors - spent) :
         \E st \in LocalEvaluateFrom(ObjectState(k), evaluationlist, 1, transform, 0, TRUE) :
            LET before == SelfCache(k)
                new == {e.oid : e \in st.cache \ before}
            IN  /\ class_cache' = IF evaluators[k].own_cache THEN class_cache ELSE st.cache
                /\ evaluators' = [evaluators EXCEPT
                        ![k] = [own_cache |-> @.own_cache,
                                cache |-> IF @.own_cache THEN st.cache ELSE @.cache,
                                id |-> st.id, total |-> st.total, serial |-> st.serial,
                                cached |-> st.cached, made |-> @.made \cup new]]
                /\ object_count' = st.nextOid
                /\ spent' = spent + Cost(evaluationlist)
                /\ lastOp' = [kind |-> "evaluate", by |-> k,
                              hits |-> {st.results[j] : j \in 1..Len(st.results)} \cap before]
    /\ UNCHANGED << vars_ev, vars_ls, vars_rec, vars_opt, vars_res, vars_obj, vars_jac >>

\* Evaluator.reset() on Evaluator object k
ObjectReset ==
    /\ \E k \in EvaluatorObjects :
        /\ evaluators' = [evaluators EXCEPT
                ![k] = [own_cache |-> TRUE, cache |-> {}, id |-> @.id, total |-> 0,
                        serial |-> 0, cached |-> 0, made |-> @.made]]
        /\ lastOp' = [kind |-> "reset", by |-> k, hits |-> {}]
    /\ UNCHANGED << class_cache, object_count, spent >>
    /\ UNCHANGED << vars_ev, vars_ls, vars_rec, vars_opt, vars_res, vars_obj, vars_jac >>

\* C29: cache state is owned by one Evaluator instance: an evaluation
\* dispatched through one instance is never served as a cache hit by another
\* one, whether or not reset() was called on either, and reset() leaves its
\* instance with an empty cache and the three counters at zero.
C29_CacheOwnedByOneEvaluator ==
    /\ (lastOp.kind = "evaluate") =>
            \A e \in lastOp.hits : e.oid \in evaluators[lastOp.by].made
    /\ (lastOp.kind = "reset") =>
            /\ SelfCache(lastOp.by) = {}
            /\ evaluators[lastOp.by].total = 0
            /\ evaluators[lastOp.by].serial = 0
            /\ evaluators[lastOp.by].cached = 0

(***************************************************************************)
(* Claims about the evaluator                                              *)
(***************************************************************************)
\* the parameters input j of the last call is evaluated with
LastParameters(j) ==
    IF lastCall.transform THEN getTransformedParameters(lastCall.input[j])
    ELSE lastCall.input[j]

LastPositions == 1..Len(lastCall.input)

\* a successful evaluation of input j's parameters took place before the last call
EvaluatedBefore(j) ==
    /\ LastParameters(j) # NoParameters
    /\ \E e \in lastCall.cacheBefore : e.kind = "ok" /\ e.parameters = LastParameters(j)

\* C3: a call whose vectors were all evaluated successfully before returns the
\* measurements of those evaluations, dispatches nothing, adds one cache hit
\* per vector and leaves the total-evaluation counter alone.
C3_SecondEvaluationIsCacheHit ==
    (calls > 0 /\ LastPositions # {} /\ \A j \in LastPositions : EvaluatedBefore(j)) =>
        /\ \A j \in LastPositions :
              /\ lastCall.results[j] \in lastCall.cacheBefore
              /\ lastCall.results[j].kind = "ok"
              /\ lastCall.results[j].parameters = LastParameters(j)
        /\ lastCall.dispatched = <<>>
        /\ cached_evaluation_count = lastCall.cachedBefore + Len(lastCall.input)
        /\ total_evaluation_count = lastCall.totalBefore

\* what the caller sees of an outcome: Success with its measurement, or
\* Failure with its reason
Outcome(e) == << e.kind, e.data, e.reason >>

Outcomes(results) == [j \in 1..Len(results) |-> Outcome(results[j])]

\* the results of the last call on the same evaluator without cache lookup
UncachedResults ==
    IF evKind = "Local"
    THEN LocalEvaluateFrom(FreshEvaluatorState, lastCall.input, 1, lastCall.transform,
                           lastCall.fixed, FALSE)
    ELSE ClusterEvaluateFrom(FreshEvaluatorState, lastCall.input, lastCall.transform,
                             lastCall.fixed, FALSE)

\* C4: every call returns the outcomes the evaluator that never consults
\* the cache returns for the same arguments.
C4_CacheIsCorrectnessNeutral ==
    calls > 0 => \A st \in UncachedResults : Outcomes(lastCall.results) = Outcomes(st.results)

\* C5: every entry of the cache is a successful evaluation.
C5_CacheHoldsOnlySuccesses ==
    \A e \in cache : e.kind = "ok"

\* C6: the result list has the length of the input list and element j is the
\* outcome of input vector j: the infeasibility failure when vector j is
\* rejected by the transform, otherwise a Success or Failure of vector j's
\* parameters, whatever happened to the other elements.
C6_ResultsMatchInputs ==
    calls > 0 =>
        /\ Len(lastCall.results) = Len(lastCall.input)
        /\ \A j \in LastPositions :
              IF LastParameters(j) = NoParameters
              THEN /\ lastCall.results[j].kind = "err"
                   /\ lastCall.results[j].reason = "Infeasible parameters"
              ELSE /\ lastCall.results[j].parameters = LastParameters(j)
                   /\ \E f \in FixedValues :
                          Outcome(lastCall.results[j]) =
                              Outcome(parse(0, LastParameters(j), f, 0))

\* a batch whose first element fails in the simulation and whose second
\* element is simulated all the same and succeeds
C6_Witness ==
    /\ calls > 0
    /\ Len(lastCall.input) >= 2
    /\ lastCall.results[1].kind = "err"
    /\ lastCall.results[2].kind = "ok"
    /\ Len(lastCall.dispatched) = 2

\* some coordinate of beta lies outside its parameter's optimization-space bounds
OutsideBounds(beta) ==
    \E t \in 1..Len(Parameters) :
        \/ /\ Parameters[t].maximumValue # HasNoBound
           /\ beta[t] > optimizationSpaceUpperBound(Parameters[t])
        \/ /\ Parameters[t].minimumValue # HasNoBound
           /\ beta[t] < optimizationSpaceLowerBound(Parameters[t])

Infeasible(e) == e.kind = "err" /\ e.reason = "Infeasible parameters"

FeasiblePositions == {j \in LastPositions : ~OutsideBounds(lastCall.input[j])}

\* C7: with transform = true every vector outside the bounds gets the
\* failure "Infeasible parameters" at its position and causes no dispatch, no
\* evaluation id and no parameter file; a vector within the bounds (a bound
\* included) does not get that failure.
C7_InfeasibleNotDispatched ==
    (calls > 0 /\ lastCall.transform) =>
        /\ \A j \in LastPositions :
              Infeasible(lastCall.results[j]) <=> OutsideBounds(lastCall.input[j])
        /\ \A k \in 1..Len(lastCall.dispatched) :
              \E j \in FeasiblePositions :
                  lastCall.dispatched[k] = getTransformedParameters(lastCall.input[j])
        /\ Len(lastCall.dispatched) <= Cardinality(FeasiblePositions)
        /\ id - lastCall.idBefore = Len(lastCall.dispatched)
        /\ Cardinality(written \ lastCall.writtenBefore) = Len(lastCall.dispatched)
        /\ \A w \in written \ lastCall.writtenBefore :
              \E k \in 1..Len(lastCall.dispatched) : w.parameters = lastCall.dispatched[k]

\* an infeasible vector next to a vector lying on its bounds that was dispatched
C7_Witness ==
    /\ calls > 0
    /\ lastCall.transform
    /\ lastCall.input = << <<4, 1>>, <<1, 1>> >>
    /\ Infeasible(lastCall.results[1])
    /\ lastCall.dispatched = << <<2, 1>> >>
    /\ id = lastCall.idBefore + 1

(***************************************************************************)
(* doLineSearch                                                            *)
(***************************************************************************)
Running == [status |-> "running", alpha |-> <<0, 1>>, norm |-> 0]
NotCalled == [status |-> "idle", alpha |-> <<0, 1>>, norm |-> 0]
\* return guess + a*stepdirection, norm
ReturnPoint(a, norm) == [status |-> "point", alpha |-> a, norm |-> norm]
\* return None, None
ReturnNone == [status |-> "none", alpha |-> <<0, 1>>, norm |-> 0]
\* an exception leaves doLineSearch
Raised == [status |-> "raised", alpha |-> <<0, 1>>, norm |-> 0]

\* minnorm = float("inf"), minindex = -1: no trial of the round finished
NoTrial == << <<-1, 1>>, Inf >>

\* the state doLineSearch starts in (the locals before `while True`)
LineSearchEntry(kind, norm0, gd) ==
    /\ lsKind' = kind
    /\ r_dot_r_half' = norm0
    /\ grad_dot_dir' = gd
    /\ low' = <<0, 1>>
    /\ top' = <<1, 1>>
    /\ l' = 0
    /\ overall_minnorm' = Inf
    /\ overall_minalpha' = <<-1, 1>>
    /\ highest_power' = highest_power_init
    /\ alpha' = <<1, 1>>
    /\ round_min' = NoTrial
    /\ lsReturn' = Running
    /\ UNCHANGED max_iterations

LineSearchIdle ==
    /\ lsKind = "Linear"
    /\ r_dot_r_half = 0
    /\ grad_dot_dir = 0
    /\ low = <<0, 1>>
    /\ top = <<1, 1>>
    /\ l = 0
    /\ overall_minnorm = Inf
    /\ overall_minalpha = <<-1, 1>>
    /\ highest_power = highest_power_init
    /\ alpha = <<1, 1>>
    /\ round_min = NoTrial
    /\ lsReturn = NotCalled
    /\ max_iterations = LsMaxIterations

\* norm < 0.5*r.dot(r) + c * a * grad.dot(stepdirection), exactly
BelowWolfeBound(norm, a) ==
    (norm - r_dot_r_half) * c_den * a[2] < c_num * a[1] * grad_dot_dir

\* norm <= 0.5*r.dot(r) + c * a * grad.dot(stepdirection), exactly
WithinWolfeBound(norm, a) ==
    (norm - r_dot_r_half) * c_den * a[2] <= c_num * a[1] * grad_dot_dir

\* the loop over the batch from trial t on: minnorm and minindex (counted
\* from 1; 0 while no trial finished)
RECURSIVE BatchMin(_, _, _)
BatchMin(outcomes, t, st) ==
    IF t > Len(outcomes) THEN st
    ELSE BatchMin(outcomes, t + 1,
                  IF outcomes[t] # Errored /\ outcomes[t] < st.minnorm
                  THEN [minnorm |-> outcomes[t], minindex |-> t]
                  ELSE st)

\* minnorm = float("inf"), minindex = -1 before the loop
NoMin == [minnorm |-> Inf, minindex |-> 0]

\* what the loop can leave in minnorm and minindex, over all outcomes of a
\* batch of parallel_evaluations trials
BatchMins ==
    {BatchMin(outcomes, 1, NoMin) : outcomes \in [1..ParallelEvaluations -> TrialOutcomes]}

\* the step length at minindex, and minnorm, after the loop over the batch
RoundMin(min, as) ==
    IF min.minindex = 0 THEN NoTrial
    ELSE << as[min.minindex], min.minnorm >>

\* np.linspace(low, top, num=parallel_evaluations)
linspace(lo, hi) ==
    [t \in 1..ParallelEvaluations |->
        RAdd(lo, RDivInt(RMulInt(RSub(hi, lo), t - 1), ParallelEvaluations - 1))]

\* np.logspace(highest_power - size, highest_power, base=2, num=parallel_evaluations)
logspace(hp) ==
    [t \in 1..ParallelEvaluations |-> RPow2(hp - size + (t - 1))]

\* overall_minnorm and overall_minalpha taking the step length of the
\* round's best trial also when that trial does not improve on the norm
OverallMinStaleNorm(min, as) ==
    IF min.minindex = 0 THEN << overall_minnorm, overall_minalpha >>
    ELSE IF min.minnorm < overall_minnorm
    THEN << min.minnorm, as[min.minindex] >>
    ELSE << overall_minnorm, as[min.minindex] >>

\* LinearParallelLineSearch: overall_minnorm and overall_minalpha after the
\* loop over the batch
OverallMin(min, as) ==
    IF min.minnorm < overall_minnorm
    THEN << min.minnorm, as[min.minindex] >>
    ELSE << overall_minnorm, overall_minalpha >>

\* LinearParallelLineSearch.doLineSearch: one pass of `while True`, with
\* the step lengths `as` of its batch
LinearRound(min, as) ==
    LET allNone == min.minindex = 0
        minindex == min.minindex
        overall == OverallMin(min, as)
        minindex_alpha == as[minindex]
        width == RSub(top, low)
        atTop == minindex = ParallelEvaluations
        atZero == minindex = 1 /\ low = <<0, 1>>
        continue_override == atTop \/ atZero
        next_low == IF atTop THEN top
                    ELSE IF atZero THEN <<0, 1>>
                    ELSE RMax(<<0, 1>>, RSub(minindex_alpha, RDivInt(width, 4)))
        next_top == IF atTop THEN RAdd(top, width)
                    ELSE IF atZero THEN RDivInt(top, ParallelEvaluations)
                    ELSE RAdd(minindex_alpha, RDivInt(width, 4))
        decrease == BelowWolfeBound(overall[1], overall[2])
        found == addMetric(addMetric(currentIteration, "alpha", Recorded),
                           "lineSearchAlphas", Recorded)
        notFound == addMetric(currentIteration, "lineSearchAlphas", Recorded)
    IN  /\ l' = l + 1
        /\ round_min' = RoundMin(min, as)
        /\ overall_minnorm' = overall[1]
        /\ overall_minalpha' = overall[2]
        /\ IF allNone
           THEN IF l + 1 = max_iterations
                THEN /\ lsReturn' = ReturnNone
                     /\ currentIteration' = notFound
                     /\ UNCHANGED << low, top >>
                ELSE /\ low' = <<0, 1>>
                     /\ top' = RDivInt(top, ParallelEvaluations)
                     /\ UNCHANGED << lsReturn, currentIteration >>
           ELSE IF decrease /\ ~continue_override
                THEN /\ lsReturn' = ReturnPoint(overall[2], overall[1])
                     /\ currentIteration' = found
                     /\ UNCHANGED << low, top >>
                ELSE IF l + 1 = max_iterations
                THEN /\ lsReturn' = IF decrease THEN ReturnPoint(overall[2], overall[1])
                                    ELSE ReturnNone
                     /\ currentIteration' = IF decrease THEN found ELSE notFound
                     /\ UNCHANGED << low, top >>
                ELSE /\ low' = next_low
                     /\ top' = next_top
                     /\ UNCHANGED << lsReturn, currentIteration >>
        /\ UNCHANGED << lsKind, max_iterations, r_dot_r_half, grad_dot_dir, highest_power, alpha >>

\* LogarithmicParallelLineSearch.doLineSearch: one pass of `while True`,
\* with the step lengths `as` of its batch
LogarithmicRound(min, as) ==
    LET allNone == min.minindex = 0
        minindex == min.minindex
        minnorm == min.minnorm
        minindex_alpha == as[minindex]
        decrease == BelowWolfeBound(minnorm, minindex_alpha)
        found == addMetric(addMetric(currentIteration, "alpha", Recorded),
                           "lineSearchAlphas", Recorded)
        notFound == addMetric(currentIteration, "lineSearchAlphas", Recorded)
    IN  /\ l' = l + 1
        /\ round_min' = RoundMin(min, as)
        /\ IF allNone
           THEN IF l + 1 = max_iterations
                THEN /\ lsReturn' = ReturnNone
                     /\ currentIteration' = notFound
                     /\ UNCHANGED highest_power
                ELSE /\ highest_power' = highest_power - size
                     /\ UNCHANGED << lsReturn, currentIteration >>
           ELSE IF decrease /\ minindex # 1
                THEN /\ lsReturn' = ReturnPoint(minindex_alpha, minnorm)
                     /\ currentIteration' = found
                     /\ UNCHANGED highest_power
                ELSE IF l + 1 = max_iterations
                THEN /\ lsReturn' = IF decrease THEN ReturnPoint(minindex_alpha, minnorm)
                                    ELSE ReturnNone
                     /\ currentIteration' = IF decrease THEN found ELSE notFound
                     /\ UNCHANGED highest_power
                ELSE /\ highest_power' = highest_power - size
                     /\ UNCHANGED << lsReturn, currentIteration >>
        /\ UNCHANGED << lsKind, max_iterations, r_dot_r_half, grad_dot_dir, low, top, overall_minnorm,
                        overall_minalpha, alpha >>

\* BacktrackingLineSearch.doLineSearch: one pass of `while True`.  evaluate
\* returns a list, which is neither None nor an ErroredEvaluation, so the
\* early return is never taken; the converter turns an errored trial into
\* None and `None - target.getNumpyArray()` raises TypeError.
BacktrackingRound(outcome) ==
    /\ round_min' = RoundMin(BatchMin(<< outcome >>, 1, NoMin), << alpha >>)
    /\ IF outcome = Errored
       THEN /\ lsReturn' = Raised
            /\ UNCHANGED << l, alpha, currentIteration >>
       ELSE /\ l' = l + 1
            /\ currentIteration' = addMetric(currentIteration, "alpha", Recorded)
            /\ IF WithinWolfeBound(outcome, alpha)
               THEN /\ lsReturn' = ReturnPoint(alpha, outcome)
                    /\ UNCHANGED alpha
               ELSE /\ alpha' = RDivInt(alpha, rho_den)
                    /\ lsReturn' = IF l + 1 = BacktrackingMaxIterations THEN ReturnNone
                                   ELSE lsReturn
    /\ UNCHANGED << lsKind, max_iterations, r_dot_r_half, grad_dot_dir, low, top, overall_minnorm,
                    overall_minalpha, highest_power >>

\* one round of each line search: its trial batch is evaluated with any
\* outcome per trial (a round of the parallel searches reads the outcomes
\* through minnorm and minindex alone).  The rounds of a parallel search are
\* followed up to one round past the largest max_iterations.
LinearLineSearchRound ==
    /\ lsReturn.status = "running"
    /\ lsKind = "Linear"
    /\ l <= LsMaxIterations
    /\ LET alphas == linspace(low, top)
       IN  \E min \in BatchMins : LinearRound(min, alphas)

LogarithmicLineSearchRound ==
    /\ lsReturn.status = "running"
    /\ lsKind = "Logarithmic"
    /\ l <= LsMaxIterations
    /\ LET alphas == logspace(highest_power)
       IN  \E min \in BatchMins : LogarithmicRound(min, alphas)

BacktrackingLineSearchRound ==
    /\ lsReturn.status = "running"
    /\ lsKind = "Backtracking"
    /\ \E outcome \in TrialOutcomes : BacktrackingRound(outcome)

(***************************************************************************)
(* Optimizers: getJacobiMatrix                                             *)
(***************************************************************************)
Variants == {"GaussNewton", "GradientDescent", "LevMar", "GainedLevMar"}
DifferencingKinds == {"central", "forward", "pure_forward", "pure_central"}

\* p = len(guess)
LenGuess == Len(Parameters)
\* n = len(targetdata): as many data points as parameters, or one more
TargetLengths == {LenGuess, LenGuess + 1}

\* the local i before `for i in ...` assigned it
Unbound == -1
\* first_S = -1, last_S = -1
Unassigned == -1
\* self.minreduction, as <<numerator, denominator>>
minreduction == <<1, 2>>
\* residual norms 0.5*r.r of the weighted residual r = weight_vector * r
\* (GaussNewton with evaluator.weight): the weights scale the norm
WeightedNormValues == NormValues \cup {3}
\* whether the weighted norm s can belong to a measurement whose unweighted
\* norm is norm (the weights are not zero: one vanishes exactly when the
\* other does)
WeightedNormOf(s, norm) == (s = 0) <=> (norm = 0)
\* grad.dot(stepdirection) for the step directions the optimizers compute
DescentValues == {gd \in GradDotDirValues : gd <= 0}

\* len(neededevaluations): the point and one or two perturbed points per parameter
neededevaluations(d) ==
    1 + (IF d \in {"forward", "pure_forward"} THEN LenGuess ELSE 2 * LenGuess)

\* return None
JacobiNone == [none |-> TRUE, matrix |-> <<>>, evaluation |-> 0]

\* getJacobiMatrix returning unless the evaluation at the point itself failed
getJacobiMatrixCheckingPoint(d, evs) ==
    IF ~evs[1] THEN JacobiNone
    ELSE [none |-> FALSE,
          matrix |-> [col \in 1..LenGuess |->
                        IF d \in {"forward", "pure_forward"}
                        THEN << col + 1, 1 >>
                        ELSE << 2 * col, 2 * col + 1 >>],
          evaluation |-> 1]

\* Optimizer.getJacobiMatrix on a batch whose evaluations finished where evs
\* is TRUE: None, or the matrix (per column the two evaluations whose
\* difference fills it) and the evaluation at the point
getJacobiMatrix(d, evs) ==
    IF \E k \in 1..Len(evs) : ~evs[k] THEN JacobiNone
    ELSE [none |-> FALSE,
          matrix |-> [col \in 1..LenGuess |->
                        IF d \in {"forward", "pure_forward"}
                        THEN << col + 1, 1 >>
                        ELSE << 2 * col, 2 * col + 1 >>],
          evaluation |-> 1]

(***************************************************************************)
(* Optimizers: run()                                                       *)
(***************************************************************************)
ConvergedMessage(v) ==
    CASE v = "GaussNewton" -> "-- Newton method converged. --"
      [] v = "GradientDescent" -> "-- Gradient descent method converged. --"
      [] v = "LevMar" -> "-- Levenberg-Marquardt method converged. --"
      [] v = "GainedLevMar" -> "-- Gained Levenberg-Marquardt method converged. --"

NotConvergedMessage(v) ==
    CASE v = "GaussNewton" -> "-- Newton method did not converge. --"
      [] v = "GradientDescent" -> "-- Gradient descent method did not converge. --"
      [] v = "LevMar" -> "-- Levenberg-Marquardt method did not converge. --"
      [] v = "GainedLevMar" -> "-- Gained Levenberg-Marquardt method did not converge. --"

\* what run() logs when no trial point is acceptable
NoStepMessage(v) ==
    IF v = "GainedLevMar"
    THEN "-- Gained Levenberg-Marquardt method did not converge. Increase presteps. --"
    ELSE NotConvergedMessage(v)

JacobiErrorMessage == "Error calculating Jacobi matrix, UG run did not finish"

\* S/first_S < self.minreduction taken against the previous iteration's norm
ConvergedSinceLast(Sk, first, last) ==
    IF last = 0 THEN FALSE
    ELSE IF last > 0 THEN Sk * minreduction[2] < minreduction[1] * last
    ELSE Sk * minreduction[2] > minreduction[1] * last

\* S/first_S < self.minreduction (a division by 0.0 gives nan or inf, which
\* compare False)
Converged(Sk, first, last) ==
    IF first = 0 THEN FALSE
    ELSE Sk * minreduction[2] < minreduction[1] * first

\* Result.commitIteration on the metrics m
commitIteration(m) ==
    /\ iterations' = Append(iterations, m)
    /\ currentIteration' = <<>>

\* an exception leaves run()
Raise ==
    /\ returned' = "raised"
    /\ ending' = "raised"
    /\ pc' = "done"

\* no acceptable trial point: report, commit, return result
NoStep ==
    /\ logentries' = Append(logentries, NoStepMessage(variant))
    /\ commitIteration(currentIteration)
    /\ returned' = "result"
    /\ ending' = "aborted"
    /\ pc' = "done"

\* a trial point is accepted: commit, guess = nextguess
AcceptStep(metrics, norm) ==
    /\ commitIteration(metrics)
    /\ new_S' = norm
    /\ pc' = "iterate"
    /\ UNCHANGED << logentries, returned, ending >>

\* run(): the start of a loop pass, from getJacobiMatrix to the call of the
\* line search or to the trial batch.  The residual norm at a guess that
\* was a trial point is the norm that trial gave (the evaluation is served
\* from the cache), except under GaussNewton's weights.  GaussNewton alone
\* reuses i for the weighting loop and multiplies variance (None when
\* dof == 0) with the hessian.
Iterate ==
    /\ pc = "iterate"
    /\ loopIndex + 1 < maxiterations
    /\ \E evs \in [1..neededevaluations(differencing) -> BOOLEAN],
          s \in IF variant = "GaussNewton" /\ weightGiven
                THEN {w \in WeightedNormValues :
                        new_S = Unassigned \/ WeightedNormOf(w, new_S)}
                ELSE NormValues,
          gd \in DescentValues :
        LET k == loopIndex + 1
            jac == getJacobiMatrix(differencing, evs)
            weighted == variant = "GaussNewton" /\ weightGiven
            Sk == IF new_S = Unassigned \/ weighted THEN s ELSE new_S
            first == IF first_S = Unassigned THEN Sk ELSE first_S
            ik == IF weighted THEN n - 1 ELSE k
            dof == n - LenGuess
            metrics == addMetric(currentIteration, "residualnorm", Sk)
        IN  /\ loopIndex' = k
            /\ jacobi_evaluations' = evs
            /\ jacobi_result' = jac
            /\ batches' = 1
            /\ costs' = <<>>
            /\ nextguess' = 0
            /\ IF jac.none
               THEN /\ logentries' = Append(logentries, JacobiErrorMessage)
                    /\ returned' = "None"
                    /\ ending' = "aborted"
                    /\ pc' = "done"
                    /\ i' = k
                    /\ UNCHANGED << S, first_S, iterations, currentIteration, vars_ls >>
               ELSE /\ S' = Sk
                    /\ first_S' = first
                    /\ i' = ik
                    /\ IF variant = "GaussNewton" /\ dof = 0
                       THEN /\ Raise
                            /\ currentIteration' = metrics
                            /\ UNCHANGED << iterations, logentries, vars_ls >>
                       ELSE IF Converged(Sk, first, last_S)
                       THEN /\ commitIteration(metrics)
                            /\ logentries' =
                                 IF ik = maxiterations - 1
                                 THEN logentries \o << ConvergedMessage(variant),
                                                       NotConvergedMessage(variant) >>
                                 ELSE Append(logentries, ConvergedMessage(variant))
                            /\ returned' = "result"
                            /\ ending' = "converged"
                            /\ pc' = "done"
                            /\ UNCHANGED vars_ls
                       ELSE /\ currentIteration' = metrics
                            /\ IF linesearchmethod # "None"
                               THEN /\ LineSearchEntry(linesearchmethod, Sk, gd)
                                    /\ pc' = "linesearch"
                               ELSE /\ pc' = "trial"
                                    /\ UNCHANGED vars_ls
                            /\ UNCHANGED << iterations, logentries, returned, ending >>
    /\ UNCHANGED << vars_cfg, last_S, new_S, lam, accepted_lam, zl, vars_ev, vars_res, vars_obj, vars_jac, vars_two >>

\* run(): range(maxiterations) is exhausted; the code after the loop
LoopExit ==
    /\ pc = "iterate"
    /\ loopIndex + 1 >= maxiterations
    /\ IF i = Unbound
       THEN /\ Raise
            /\ UNCHANGED logentries
       ELSE /\ logentries' = IF i = maxiterations - 1
                             THEN Append(logentries, NotConvergedMessage(variant))
                             ELSE logentries
            /\ returned' = "result"
            /\ ending' = "maxiterations"
            /\ pc' = "done"
    /\ UNCHANGED << vars_cfg, loopIndex, i, S, first_S, last_S, new_S, lam, accepted_lam,
                    zl, jacobi_evaluations, jacobi_result, batches, costs, nextguess,
                    iterations, currentIteration, vars_ls, vars_ev, vars_res, vars_obj, vars_jac, vars_two >>

\* the locals of doLineSearch are gone
LineSearchLeft ==
    /\ lsKind' = "Linear"
    /\ r_dot_r_half' = 0
    /\ grad_dot_dir' = 0
    /\ low' = <<0, 1>>
    /\ top' = <<1, 1>>
    /\ l' = 0
    /\ overall_minnorm' = Inf
    /\ overall_minalpha' = <<-1, 1>>
    /\ highest_power' = highest_power_init
    /\ alpha' = <<1, 1>>
    /\ round_min' = NoTrial
    /\ lsReturn' = NotCalled
    /\ UNCHANGED max_iterations

\* GaussNewton, GradientDescent: run() after doLineSearch returned or raised
LineSearchReturned ==
    /\ pc = "linesearch"
    /\ lsReturn.status # "running"
    /\ CASE lsReturn.status = "raised" ->
              /\ Raise
              /\ UNCHANGED << iterations, currentIteration, logentries, new_S, last_S >>
         [] lsReturn.status = "none" ->
              /\ NoStep
              /\ UNCHANGED << new_S, last_S >>
         [] lsReturn.status = "point" ->
              /\ AcceptStep(currentIteration, lsReturn.norm)
              /\ last_S' = S
    /\ LineSearchLeft
    /\ UNCHANGED << vars_cfg, loopIndex, i, S, first_S, lam, accepted_lam, zl,
                    jacobi_evaluations, jacobi_result, batches, costs, nextguess,
                    vars_ev, vars_res, vars_obj, vars_jac, vars_two >>

\* LevMar: the batch at lam/nu, lam and lam*nu
LevMarTrialBatch ==
    /\ pc = "trial"
    /\ variant = "LevMar"
    /\ \E cs \in [1..3 -> TrialOutcomes] :
        LET choice == IF cs[1] # Errored /\ cs[1] <= S THEN 1
                      ELSE IF cs[2] # Errored /\ cs[2] <= S THEN 2
                      ELSE IF cs[3] # Errored /\ cs[3] < S THEN 3
                      ELSE 0
            newlam == lam + choice - 2
        IN  /\ costs' = cs
            /\ nextguess' = choice
            /\ IF choice # 0
               THEN /\ AcceptStep(addMetric(addMetric(currentIteration, "lambda", Recorded),
                                            "residualnorm_new", cs[choice]),
                                  cs[choice])
                    /\ lam' = newlam
                    /\ accepted_lam' = newlam
                    /\ UNCHANGED zl
               ELSE IF P_iteration_count = 0
               THEN /\ NoStep
                    /\ UNCHANGED << new_S, lam, accepted_lam, zl >>
               ELSE /\ pc' = "ladder"
                    /\ zl' = 0
                    /\ UNCHANGED << new_S, lam, accepted_lam, iterations, currentIteration,
                                    logentries, returned, ending >>
    /\ batches' = batches + 1
    /\ UNCHANGED << vars_cfg, loopIndex, i, S, first_S, last_S, jacobi_evaluations,
                    jacobi_result, vars_ls, vars_ev, vars_res, vars_obj, vars_jac, vars_two >>

\* the scan of a ladder batch comparing the cost of every trial, finished
\* or not
RECURSIVE LadderScanIgnoringFailures(_, _, _)
LadderScanIgnoringFailures(cs, z, st) ==
    IF z > Len(cs) THEN st
    ELSE LadderScanIgnoringFailures(cs, z + 1,
                    IF cs[z] < S
                    THEN [lam |-> st.lam + (z - 1), new_S |-> cs[z],
                          nextguess |-> z, found |-> TRUE]
                    ELSE st)

\* LevMar: `for z in range(self.P)` over the costs of a ladder batch, from
\* trial z on (z counts from 1 here)
RECURSIVE LadderScan(_, _, _)
LadderScan(cs, z, st) ==
    IF z > Len(cs) THEN st
    ELSE LadderScan(cs, z + 1,
                    IF cs[z] # Errored /\ cs[z] < S
                    THEN [lam |-> st.lam + (z - 1), new_S |-> cs[z],
                          nextguess |-> z, found |-> TRUE]
                    ELSE st)

\* LevMar: one pass of `for zl in range(self.P_iteration_count)`
LevMarLadderBatch ==
    /\ pc = "ladder"
    /\ \E cs \in [1..P -> TrialOutcomes] :
        LET st == LadderScan(cs, 1, [lam |-> lam, new_S |-> Unassigned,
                                     nextguess |-> 0, found |-> FALSE])
        IN  /\ costs' = cs
            /\ nextguess' = st.nextguess
            /\ IF st.found
               THEN /\ AcceptStep(addMetric(addMetric(currentIteration, "lambda", Recorded),
                                            "residualnorm_new", st.new_S),
                                  st.new_S)
                    /\ lam' = st.lam
                    /\ accepted_lam' = lam + zl * P + (st.nextguess - 1)
                    /\ UNCHANGED zl
               ELSE IF zl + 1 < P_iteration_count
               THEN /\ zl' = zl + 1
                    /\ UNCHANGED << pc, new_S, lam, accepted_lam, iterations,
                                    currentIteration, logentries, returned, ending >>
               ELSE /\ NoStep
                    /\ UNCHANGED << new_S, lam, accepted_lam, zl >>
    /\ batches' = batches + 1
    /\ UNCHANGED << vars_cfg, loopIndex, i, S, first_S, last_S, jacobi_evaluations,
                    jacobi_result, vars_ls, vars_ev, vars_res, vars_obj, vars_jac, vars_two >>

\* the place of the trial with the lowest cost among those with a positive
\* gain ratio
lowestCostStep(cs) ==
    LET acceptable == {z \in 1..Len(cs) : cs[z] < S}
    IN  IF acceptable = {} THEN 0
        ELSE CHOOSE z \in acceptable :
                \A y \in acceptable : cs[z] < cs[y] \/ (cs[z] = cs[y] /\ z <= y)

\* GainedLevMar: `for z in range(self.presteps+1)` with its break: the place
\* of the first trial whose gain ratio is positive (0: the else branch of
\* the loop).  The gain ratio (S - cost)/denum of a finished trial has a
\* positive denum, so it is positive exactly when the cost is below S.
firstAcceptableStep(cs) ==
    LET acceptable == {z \in 1..Len(cs) : cs[z] < S}
    IN  IF acceptable = {} THEN 0
        ELSE CHOOSE z \in acceptable : \A y \in acceptable : z <= y

\* GainedLevMar: the batch at lam and at the presteps larger dampings;
\* calculateGainRatio raises on a trial that did not finish.
GainedLevMarTrialBatch ==
    /\ pc = "trial"
    /\ variant = "GainedLevMar"
    /\ \E cs \in [1..presteps + 1 -> TrialOutcomes] :
        LET failed == \E z \in 1..presteps + 1 : cs[z] = Errored
            first == firstAcceptableStep(cs)
        IN  /\ costs' = cs
            /\ nextguess' = IF failed THEN 0 ELSE first
            /\ IF failed
               THEN /\ Raise
                    /\ UNCHANGED << new_S, iterations, currentIteration, logentries >>
               ELSE IF first = 0
               THEN /\ NoStep
                    /\ UNCHANGED new_S
               ELSE AcceptStep(addMetric(currentIteration, "residualnorm_new", cs[first]),
                               cs[first])
    /\ batches' = batches + 1
    /\ UNCHANGED << vars_cfg, loopIndex, i, S, first_S, last_S, lam, accepted_lam, zl,
                    jacobi_evaluations, jacobi_result, vars_ls, vars_ev, vars_res, vars_obj, vars_jac, vars_two >>

\* before run() is called
OptimizerIdle ==
    /\ variant = "GaussNewton"
    /\ linesearchmethod = "Linear"
    /\ differencing = "forward"
    /\ maxiterations = 0
    /\ weightGiven = FALSE
    /\ n = LenGuess + 1
    /\ pc = "idle"
    /\ loopIndex = -1
    /\ i = Unbound
    /\ S = 0
    /\ first_S = Unassigned
    /\ last_S = Unassigned
    /\ new_S = Unassigned
    /\ lam = 0
    /\ accepted_lam = 0
    /\ zl = 0
    /\ jacobi_evaluations = <<>>
    /\ jacobi_result = JacobiNone
    /\ batches = 0
    /\ costs = <<>>
    /\ nextguess = 0
    /\ returned = "running"
    /\ ending = "none"

\* run() up to its loop, for any optimizer and any configuration.  Only
\* GaussNewton reads the weights, and only it depends on n - p.
InitOptimizer ==
    /\ variant \in Variants
    /\ linesearchmethod \in IF variant \in {"GaussNewton", "GradientDescent"}
                            THEN LineSearchKinds ELSE {"None"}
    /\ differencing \in DifferencingKinds
    /\ maxiterations \in 0..MaxIterations
    /\ weightGiven \in IF variant = "GaussNewton" THEN BOOLEAN ELSE {FALSE}
    /\ n \in IF variant = "GaussNewton" THEN TargetLengths ELSE {LenGuess + 1}
    /\ pc = "iterate"
    /\ loopIndex = -1
    /\ i = IF variant = "GaussNewton" /\ weightGiven THEN n - 1 ELSE Unbound
    /\ S = 0
    /\ first_S = Unassigned
    /\ last_S = Unassigned
    /\ new_S = Unassigned
    /\ lam = 0
    /\ accepted_lam = 0
    /\ zl = 0
    /\ jacobi_evaluations = <<>>
    /\ jacobi_result = JacobiNone
    /\ batches = 0
    /\ costs = <<>>
    /\ nextguess = 0
    /\ returned = "running"
    /\ ending = "none"

(***************************************************************************)
(* Optimizer.__init__ and the batch of getJacobiMatrix (optimizer.py)      *)
(***************************************************************************)
RMul(a, b) == RNorm(a[1] * b[1], a[2] * b[2])
RNeg(a) == << -a[1], a[2] >>
One == << 1, 1 >>
Zero == << 0, 1 >>

\* np.sqrt(np.finfo(np.float).eps): the square root of 2^-52
GoodGuess == << 1, Pow(2, 26) >>
\* the epsilon an optimizer is given: the default 1e-3, a coarse step, and -1
\* to ask for the good guess
EpsilonValues == { << 1, 1000 >>, << 1, 10 >>, << -1, 1 >> }
\* the coordinates of the point
PointValues == {0, 1, 2}
Points == [1..LenGuess -> {RInt(v) : v \in PointValues}]
Unset == << 0, 0 >>

NoJacobiMatrixYet ==
    /\ epsilon = Unset
    /\ constructed = "no"
    /\ finite_differencing_epsilon = Unset
    /\ point = <<>>
    /\ jacobi_batch = <<>>
    /\ evaluate_calls = 0

\* forward differencing with the relative step also at a zero coordinate
changedRelative(p, eps) == RMul(p, RAdd(One, eps))

\* forward: changed[i] = eps if changed[i] == 0, else changed[i] *= 1 + eps
changed(p, eps) == IF p = Zero THEN eps ELSE RMul(p, RAdd(One, eps))

\* central: changedPos[i] and changedNeg[i]
changedPos(p, eps) == IF p = Zero THEN eps ELSE RMul(p, RAdd(One, eps))
changedNeg(p, eps) == IF p = Zero THEN RNeg(eps) ELSE RMul(p, RSub(One, eps))

\* the list neededevaluations getJacobiMatrix builds at the point pt
neededevaluationsAt(pt, d, eps) ==
    << pt >> \o
    CASE d = "forward" ->
            [k \in 1..Len(pt) |-> [pt EXCEPT ![k] = changed(pt[k], eps)]]
      [] d = "pure_forward" ->
            [k \in 1..Len(pt) |-> [pt EXCEPT ![k] = RAdd(pt[k], eps)]]
      [] d = "central" ->
            [k \in 1..(2 * Len(pt)) |->
                LET c == (k + 1) \div 2
                IN  [pt EXCEPT ![c] = IF k % 2 = 1 THEN changedPos(pt[c], eps)
                                                  ELSE changedNeg(pt[c], eps)]]
      [] d = "pure_central" ->
            [k \in 1..(2 * Len(pt)) |->
                LET c == (k + 1) \div 2
                IN  [pt EXCEPT ![c] = IF k % 2 = 1 THEN RAdd(pt[c], eps)
                                                  ELSE RSub(pt[c], eps)]]

\* an optimizer is about to be constructed with some epsilon and
\* differencing, and getJacobiMatrix called at some point
InitJacobi ==
    /\ epsilon \in EpsilonValues
    /\ constructed = "no"
    /\ finite_differencing_epsilon = Unset
    /\ point \in Points
    /\ jacobi_batch = <<>>
    /\ evaluate_calls = 0

\* Optimizer.__init__(epsilon, differencing).  np.float exists up to numpy
\* 1.23 only: with a later numpy the branch for epsilon < 0 raises
OptimizerInit ==
    /\ constructed = "no"
    /\ finite_differencing_epsilon' = epsilon
    /\ constructed' \in IF RLess(epsilon, Zero) THEN {"yes", "AttributeError"} ELSE {"yes"}
    /\ UNCHANGED << epsilon, point, jacobi_batch, evaluate_calls,
                    vars_ev, vars_ls, vars_rec, vars_opt, vars_res, vars_obj, vars_two >>

\* getJacobiMatrix(point, evaluator, target, result): the batch, its one
\* evaluate call, and the return value
GetJacobiMatrix ==
    /\ constructed = "yes"
    /\ evaluate_calls = 0
    /\ jacobi_batch' = neededevaluationsAt(point, differencing, finite_differencing_epsilon)
    /\ evaluate_calls' = evaluate_calls + 1
    /\ \E evs \in [1..neededevaluations(differencing) -> BOOLEAN] :
            /\ jacobi_evaluations' = evs
            /\ jacobi_result' = getJacobiMatrix(differencing, evs)
    /\ UNCHANGED << epsilon, constructed, finite_differencing_epsilon, point,
                    vars_cfg, pc, loopIndex, i, S, first_S, last_S, new_S, lam, accepted_lam,
                    zl, returned, ending, costs, nextguess, batches,
                    vars_ev, vars_ls, vars_rec, vars_res, vars_obj, vars_two >>

(***************************************************************************)
(* The Result on its own: its calls in any order                           *)
(***************************************************************************)
Filenames == {"None", "results.pkl"}
\* the names of the metrics, in a fixed order, and of the metadata
MetricNames == <<"residualnorm", "parameters">>
MetadataNames == {"target"}
Tags == {"jacobi-matrix"}
LogTexts == {"-- Starting newton method. --"}
\* the contents an object of the caller can have
ObjectValues == {0, 1}
\* the objects of the caller: the first ids of the heap
CallerIds == 1..CallerObjects

\* the metrics of m other than "evaluations", in the order of MetricNames
present(m) == SelectSeq(MetricNames, LAMBDA name : name \in DOMAIN m)
evaluationsOf(m) == IF "evaluations" \in DOMAIN m THEN m["evaluations"] ELSE <<>>
Position(names, name) == CHOOSE k \in 1..Len(names) : names[k] = name

\* no copy: the record holds the objects of the current metrics themselves
sharedcopy(m, h) == [record |-> m, heap |-> h]

\* copy.deepcopy(self.currentIteration): a record of new objects with the
\* contents the objects of m have now, and the heap with these objects
deepcopy(m, h) ==
    LET names == present(m)
        evs == evaluationsOf(m)
    IN  [record |->
            [name \in DOMAIN m |->
                IF name = "evaluations"
                THEN [j \in 1..Len(evs) |->
                        << Len(h) + Len(names) + j, evs[j][2], evs[j][3] >>]
                ELSE Len(h) + Position(names, name)],
         heap |-> h \o [k \in 1..Len(names) |-> h[m[names[k]]]]
                   \o [j \in 1..Len(evs) |-> h[evs[j][1]]]]

\* what a reader of a record finds in it: the contents of its objects
View(record, h) ==
    [name \in DOMAIN record |->
        IF name = "evaluations"
        THEN [j \in 1..Len(record[name]) |->
                << h[record[name][j][1]], record[name][j][2], record[name][j][3] >>]
        ELSE h[record[name]]]

\* Result(filename) and the objects of its caller
InitResult ==
    /\ iterations = <<>>
    /\ currentIteration = <<>>
    /\ logentries = <<>>
    /\ filename \in Filenames
    /\ metadata = <<>>
    /\ heap \in [CallerIds -> ObjectValues]
    /\ error = "none"

\* result.addRunMetadata(name, value)
AddRunMetadata ==
    /\ \E name \in MetadataNames, value \in CallerIds :
            metadata' = addMetric(metadata, name, value)
    /\ error' = "none"
    /\ UNCHANGED << filename, heap, vars_rec, vars_ev, vars_ls, vars_opt, vars_res, vars_jac, vars_two >>

\* result.addEvaluations(evaluations, tag)
AddEvaluations ==
    /\ Len(evaluationsOf(currentIteration)) < 1
    /\ \E evaluations \in CallerIds, tag \in Tags :
            /\ heap' = Append(heap, heap[evaluations])
            /\ currentIteration' =
                    addMetric(currentIteration, "evaluations",
                              Append(evaluationsOf(currentIteration),
                                     << Len(heap) + 1, tag, Len(iterations) >>))
    /\ error' = "none"
    /\ UNCHANGED << filename, metadata, iterations, logentries,
                    vars_ev, vars_ls, vars_opt, vars_res, vars_jac, vars_two >>

\* result.addMetric(name, value)
AddMetric ==
    /\ \E k \in 1..Len(MetricNames), value \in CallerIds :
            currentIteration' = addMetric(currentIteration, MetricNames[k], value)
    /\ error' = "none"
    /\ UNCHANGED << filename, metadata, heap, iterations, logentries,
                    vars_ev, vars_ls, vars_opt, vars_res, vars_jac, vars_two >>

\* result.commitIteration(), with its save()
CommitIteration ==
    /\ Len(iterations) < MaxCommits
    /\ LET copy == deepcopy(currentIteration, heap)
       IN  /\ commitIteration(copy.record)
           /\ heap' = copy.heap
    /\ error' = "none"
    /\ UNCHANGED << filename, metadata, logentries, vars_ev, vars_ls, vars_opt, vars_res, vars_jac, vars_two >>

\* result.log(text): the entry is appended, then the log file
\* self.filename + "_log" is opened
Log ==
    /\ Len(logentries) < MaxLogEntries
    /\ \E text \in LogTexts : logentries' = Append(logentries, text)
    /\ error' = IF filename = "None" THEN "TypeError" ELSE "none"
    /\ UNCHANGED << filename, metadata, heap, iterations, currentIteration,
                    vars_ev, vars_ls, vars_opt, vars_res, vars_jac, vars_two >>

\* the caller changes an object it holds
MutateObject ==
    /\ \E object \in CallerIds, value \in ObjectValues :
            /\ heap[object] # value
            /\ heap' = [heap EXCEPT ![object] = value]
    /\ UNCHANGED << filename, metadata, error, vars_rec, vars_ev, vars_ls, vars_opt, vars_res, vars_jac, vars_two >>

(***************************************************************************)
(* Measurements: getNumpyArray and getNumpyArrayLike                       *)
(***************************************************************************)
MeasurementKinds == {"GenericEvaluation", "FreeSurfaceTimeDependentEvaluation"}
\* the times and the measured values of the model
TimeValues == 0..3
DataValues == {0, 1}

\* the measurements of the model.  self.data has one entry per time: a
\* number (here a row of one number) in a GenericEvaluation, a row of one
\* number per location in a FreeSurfaceTimeDependentEvaluation
Measurements ==
    UNION {{[kind |-> k, times |-> ts, data |-> ds] :
                ts \in [1..len -> TimeValues],
                ds \in [1..len -> [1..(IF k = "GenericEvaluation" THEN 1 ELSE LocationCount)
                                    -> DataValues]]} :
           len \in 1..MaxTimes, k \in MeasurementKinds}

NoMeasurement == [kind |-> "None", times |-> <<>>, data |-> <<>>]
\* getNumpyArrayLike was not called yet
NotAskedYet == [status |-> "pending", array |-> <<>>]
\* getNumpyArrayLike returned array
ReturnArray(array) == [status |-> "returned", array |-> array]
\* getNumpyArrayLike raised
RaiseError(what) == [status |-> what, array |-> <<>>]

NoMeasurementYet ==
    /\ measurement = NoMeasurement
    /\ toFormat = NoMeasurement
    /\ arrayLike = NotAskedYet

\* np.concatenate / np.reshape(..., -1) of a list of rows
RECURSIVE concatenate(_)
concatenate(rows) ==
    IF rows = <<>> THEN <<>> ELSE Head(rows) \o concatenate(Tail(rows))

\* a row of self.data as numbers of the array
Row(row) == [c \in 1..Len(row) |-> RInt(row[c])]

\* getNumpyArray: np.array(self.data), np.reshape(np.array(self.data), -1)
getNumpyArray(self) ==
    concatenate([k \in 1..Len(self.data) |-> Row(self.data[k])])

\* the weights of the two neighbours exchanged
interpolatedExchanged(lowerdata, higherdata, lowertime, highertime, target_time) ==
    [c \in 1..Len(lowerdata) |->
        RNorm((target_time - lowertime) * lowerdata[c]
                + (highertime - target_time) * higherdata[c],
              highertime - lowertime)]

\* percentage * higherdata + (1 - percentage) * lowerdata with
\* percentage = (target_time - lowertime) / (highertime - lowertime)
interpolated(lowerdata, higherdata, lowertime, highertime, target_time) ==
    [c \in 1..Len(lowerdata) |->
        RNorm((target_time - lowertime) * higherdata[c]
                + (highertime - target_time) * lowerdata[c],
              highertime - lowertime)]

\* the `while True` loop of getNumpyArrayLike over times[first..last] from
\* nearest_lower on: the row written for target_time (<<>>: the loop does
\* not end, with times[nearest_lower] > target_time and nearest_lower > 0)
RECURSIVE nearest(_, _, _, _, _, _)
nearest(times, data, first, last, nearest_lower, target_time) ==
    IF times[nearest_lower] = target_time THEN Row(data[nearest_lower])
    ELSE IF nearest_lower = last THEN Row(data[nearest_lower])
    ELSE IF times[nearest_lower] < target_time
    THEN IF times[nearest_lower + 1] > target_time
         THEN interpolated(data[nearest_lower], data[nearest_lower + 1],
                           times[nearest_lower], times[nearest_lower + 1], target_time)
         ELSE nearest(times, data, first, last, nearest_lower + 1, target_time)
    ELSE IF nearest_lower = first THEN Row(data[nearest_lower])
    ELSE <<>>

\* split_sorted_array: np.where(np.diff(arr) < 0)[0] + 1, with the start of
\* the first group
split_indices(arr) == {1} \cup {k \in 2..Len(arr) : arr[k] < arr[k - 1]}
\* the group of np.split an index lies in, and the ends of a group
GroupOf(arr, j) == Cardinality({k \in split_indices(arr) : k <= j})
GroupFirst(arr, g) == CHOOSE k \in split_indices(arr) : GroupOf(arr, k) = g
GroupLast(arr, g) ==
    IF g = Cardinality(split_indices(arr)) THEN Len(arr) ELSE GroupFirst(arr, g + 1) - 1

\* GenericEvaluation.getNumpyArrayLike(self, target)
GenericGetNumpyArrayLike(self, target) ==
    LET groups == Cardinality(split_indices(self.times))
        target_groups == Cardinality(split_indices(target.times))
    IN  IF groups > 1 /\ groups # target_groups THEN RaiseError("IncompatibleFormatError")
        ELSE IF target_groups > groups THEN RaiseError("IndexError")
        ELSE ReturnArray(concatenate(
                [j \in 1..Len(target.times) |->
                    LET g == GroupOf(target.times, j)
                    IN  nearest(self.times, self.data, GroupFirst(self.times, g),
                                GroupLast(self.times, g), GroupFirst(self.times, g),
                                target.times[j])]))

\* FreeSurfaceTimeDependentEvaluation.getNumpyArrayLike(self, target) for a
\* time-dependent target at the same locations
FreeSurfaceGetNumpyArrayLike(self, target) ==
    ReturnArray(concatenate(
        [j \in 1..Len(target.times) |->
            nearest(self.times, self.data, 1, Len(self.times), 1, target.times[j])]))

\* a coordinate is a number of thousandths; math.fabs(...) > 0.001
LocationTolerance == 1
LocationValues == {0, 1, 2}
\* a location: a number in dimension 2, a pair of numbers in dimension 3
LocationsOf(dimension) ==
    IF dimension = 2 THEN LocationValues ELSE LocationValues \X LocationValues
\* the times of the free-surface measurements that carry locations
SurfaceTimes == {<<0>>, <<0, 2>>}
SurfaceTargetTimes == {<<1>>, <<0, 1>>}

\* FreeSurfaceTimeDependentEvaluation(data, times, locations, dimension)
SurfaceMeasurements ==
    UNION {{[kind |-> "FreeSurfaceTimeDependentEvaluation", times |-> ts, data |-> ds,
             locations |-> locs, dimension |-> dim] :
                ds \in [1..Len(ts) -> [1..count -> DataValues]],
                locs \in [1..count -> LocationsOf(dim)]} :
           ts \in SurfaceTimes, count \in 1..LocationCount, dim \in {2, 3}}

\* the targets: a time-dependent measurement or
\* FreeSurfaceEquilibriumEvaluation(data, locations, dimension), self.times = [0]
SurfaceTargets ==
    UNION {{[kind |-> k, times |-> ts,
             data |-> [j \in 1..Len(ts) |-> [c \in 1..count |-> 0]],
             locations |-> locs, dimension |-> dim] :
                ts \in IF k = "FreeSurfaceEquilibriumEvaluation" THEN {<<0>>}
                                                                  ELSE SurfaceTargetTimes,
                locs \in [1..count -> LocationsOf(dim)]} :
           count \in 1..LocationCount, dim \in {2, 3},
           k \in {"FreeSurfaceEquilibriumEvaluation", "FreeSurfaceTimeDependentEvaluation"}}

\* the test of hasSameLocations on the location of index loc
LocationDiffers(A, B, loc) ==
    IF A.dimension = 2
    THEN Abs(B.locations[loc] - A.locations[loc]) > LocationTolerance
    ELSE \/ Abs(B.locations[loc][1] - A.locations[loc][1]) > LocationTolerance
         \/ Abs(B.locations[loc][2] - A.locations[loc][2]) > LocationTolerance

\* FreeSurfaceEvaluation.hasSameLocations(A, B): "True", "False", or the
\* AttributeError of `A.lcations` in the message of the last branch
hasSameLocations(A, B) ==
    IF Len(A.locations) # Len(B.locations) THEN "False"
    ELSE IF \A loc \in 1..Len(A.locations) : ~LocationDiffers(A, B, loc) THEN "True"
    ELSE IF A.dimension = 2 THEN "False"
    ELSE "AttributeError"

\* FreeSurfaceTimeDependentEvaluation.getNumpyArrayLike(self, target), with
\* the tests before the loop
FreeSurfaceTimeDependentGetNumpyArrayLike(self, target) ==
    IF target.kind \notin {"FreeSurfaceEquilibriumEvaluation",
                           "FreeSurfaceTimeDependentEvaluation"}
    THEN RaiseError("IncompatibleFormatError")
    ELSE IF hasSameLocations(self, target) = "AttributeError" THEN RaiseError("AttributeError")
    ELSE IF hasSameLocations(self, target) = "False"
    THEN RaiseError("IncompatibleFormatError")
    ELSE IF target.kind = "FreeSurfaceEquilibriumEvaluation"
    THEN ReturnArray(Row(self.data[Len(self.data)]))
    ELSE FreeSurfaceGetNumpyArrayLike(self, target)

\* measurement.getNumpyArrayLike(target) between two free-surface measurements
FreeSurfaceEvaluationToTarget ==
    /\ measurement.kind = "FreeSurfaceTimeDependentEvaluation"
    /\ arrayLike = NotAskedYet
    /\ arrayLike' = FreeSurfaceTimeDependentGetNumpyArrayLike(measurement, toFormat)
    /\ UNCHANGED << measurement, toFormat, vars_ev, vars_ls, vars_rec, vars_opt, vars_obj, vars_jac, vars_two >>

\* m.getNumpyArrayLike(m) on a GenericEvaluation
GenericEvaluationToSelf ==
    /\ measurement.kind = "GenericEvaluation"
    /\ arrayLike = NotAskedYet
    /\ arrayLike' = GenericGetNumpyArrayLike(measurement, measurement)
    /\ UNCHANGED << measurement, toFormat, vars_ev, vars_ls, vars_rec, vars_opt, vars_obj, vars_jac, vars_two >>

\* m.getNumpyArrayLike(m) on a FreeSurfaceTimeDependentEvaluation
FreeSurfaceEvaluationToSelf ==
    /\ measurement.kind = "FreeSurfaceTimeDependentEvaluation"
    /\ arrayLike = NotAskedYet
    /\ arrayLike' = FreeSurfaceGetNumpyArrayLike(measurement, measurement)
    /\ UNCHANGED << measurement, toFormat, vars_ev, vars_ls, vars_rec, vars_opt, vars_obj, vars_jac, vars_two >>

\* measurement.getNumpyArrayLike(target) between two GenericEvaluations
GenericEvaluationToTarget ==
    /\ measurement.kind = "GenericEvaluation"
    /\ toFormat.kind = "GenericEvaluation"
    /\ arrayLike = NotAskedYet
    /\ arrayLike' = GenericGetNumpyArrayLike(measurement, toFormat)
    /\ UNCHANGED << measurement, toFormat, vars_ev, vars_ls, vars_rec, vars_opt, vars_obj, vars_jac, vars_two >>

(***************************************************************************)
(* Line searches: claims                                                   *)
(***************************************************************************)

\* the trial whose step length and norm a Linear search holds as the best
\* so far is replaced only by the best finished trial of the round
OverallMinIsOneTrial ==
    (lsKind = "Linear" /\
     << overall_minalpha', overall_minnorm' >> # << overall_minalpha, overall_minnorm >>)
        => /\ << overall_minalpha', overall_minnorm' >> = round_min'
           /\ round_min' # NoTrial

\* norm <= S(0) + c * a * grad.dir for the step length a = <<num, den>>
SufficientDecrease(norm, a) ==
    (norm - r_dot_r_half) * 1000 * a[2] <= a[1] * grad_dot_dir

\* C1: whichever line search ran, a step length it returns satisfies the
\* sufficient-decrease bound S(alpha) <= S(0) + c*alpha*grad.dir, and the
\* step length and the norm it returns (the pair that was compared) are the
\* step length and the norm of one finished trial: the best trial of the
\* last round, or for a Linear search the best trial so far, which is only
\* ever replaced by a round's best trial as a pair.
C1_ReturnedStepSatisfiesArmijo ==
    /\ [](lsReturn.status = "point" =>
            /\ SufficientDecrease(lsReturn.norm, lsReturn.alpha)
            /\ << lsReturn.alpha, lsReturn.norm >> =
                 IF lsKind = "Linear" THEN << overall_minalpha, overall_minnorm >>
                 ELSE round_min
            /\ lsReturn.norm # Inf)
    /\ [][OverallMinIsOneTrial]_vars

\* a Linear search returns, in its last round, the best trial of an earlier
\* round
C1_Witness ==
    /\ lsReturn.status = "point"
    /\ lsKind = "Linear"
    /\ l = LsMaxIterations
    /\ << lsReturn.alpha, lsReturn.norm >> # round_min
    /\ lsReturn.norm < r_dot_r_half

\* the round that runs now is the last one max_iterations allows
LastRound ==
    IF lsKind = "Backtracking" THEN l + 1 = BacktrackingMaxIterations
    ELSE l + 1 = LsMaxIterations

\* every trial of the last permitted round failed: (None, None) is returned
AllFailedReturnsNone ==
    (lsReturn.status = "running" /\ LastRound /\ round_min' = NoTrial)
        => lsReturn'.status = "none"

\* C13: for each of the three line searches, when every trial evaluation
\* of a round fails and the round budget is exhausted, doLineSearch returns
\* (None, None): it neither raises nor returns a point.
C13_AllFailedReturnsNone == [][AllFailedReturnsNone]_vars

\* norm < S(0) + c * a * grad.dir, and norm > S(0) + c * a * grad.dir
StrictlyBelowBound(norm, a) ==
    (norm - r_dot_r_half) * 1000 * a[2] < a[1] * grad_dot_dir
StrictlyAboveBound(norm, a) ==
    (norm - r_dot_r_half) * 1000 * a[2] > a[1] * grad_dot_dir

LinearRoundBeforeLast ==
    (lsKind = "Linear" /\ lsReturn.status = "running" /\ l + 1 < LsMaxIterations /\
     round_min' # NoTrial)
        => LET best == round_min'[1]
               atEdge == best \in {low, top}
               quarter == RDivInt(RSub(top, low), 4)
           IN  /\ lsReturn'.status \in {"running", "point"}
               /\ lsReturn'.status = "point"
                    => /\ StrictlyBelowBound(lsReturn'.norm, lsReturn'.alpha)
                       /\ lsReturn'.alpha \notin {low, top}
               /\ atEdge => /\ lsReturn'.status = "running"
                             /\ << low', top' >> # << low, top >>
               /\ (~atEdge /\ lsReturn'.status = "running")
                    => /\ low' = RMax(<<0, 1>>, RSub(best, quarter))
                       /\ top' = RAdd(best, quarter)

\* C15: before its last round, a Linear search returns a step only if the
\* best step so far satisfies sufficient decrease and does not lie at the
\* first or last sample of the current window [low, top]; a best sample at
\* an edge moves the window and runs another round, any other one narrows
\* the next window around it.
C15_ReturnsOnlyInteriorSteps == [][LinearRoundBeforeLast]_vars

\* C16: a Logarithmic search never returns the step of the sample at the
\* low end of the round's window (index 0), in any round, the last included.
C16_LowEndNeverReturned ==
    (lsKind = "Logarithmic" /\ lsReturn.status = "point")
        => lsReturn.alpha # RPow2(highest_power - size)

(***************************************************************************)
(* Optimizers: claims                                                      *)
(***************************************************************************)

\* the reports of the run
Reports == {logentries[k] : k \in 1..Len(logentries)}

\* run() has returned (it did not raise)
RunReturned == pc = "done" /\ returned \in {"None", "result"}

\* C2: getJacobiMatrix returns no Jacobian whenever an evaluation of its
\* batch, the one at the point or a perturbed one, failed; a matrix it
\* returns has one column per parameter, each the difference of two
\* finished evaluations, and comes with the finished evaluation at the point.
C2_JacobiMatrixIsAllOrNothing ==
    jacobi_evaluations # <<>> =>
        /\ jacobi_result.none <=>
             \E k \in 1..Len(jacobi_evaluations) : ~jacobi_evaluations[k]
        /\ ~jacobi_result.none =>
             /\ DOMAIN jacobi_result.matrix = 1..LenGuess
             /\ \A col \in 1..LenGuess :
                  /\ jacobi_evaluations[jacobi_result.matrix[col][1]]
                  /\ jacobi_evaluations[jacobi_result.matrix[col][2]]
             /\ jacobi_result.evaluation = 1
             /\ jacobi_evaluations[1]

\* the point itself was evaluated and one perturbed evaluation failed
C2_Witness ==
    /\ jacobi_evaluations # <<>>
    /\ jacobi_evaluations[1]
    /\ ~jacobi_evaluations[Len(jacobi_evaluations)]
    /\ jacobi_result.none
    /\ differencing = "central"

\* C8: a run that returns ends in exactly one of converged, max-iterations
\* and abort, and the caller can tell which: a converged run reports
\* convergence and nothing else, a run that used up its iterations reports
\* non-convergence and nothing else, and an aborted run reports neither of
\* the two; this for every maxiterations that lets the run iterate.
C8_OutcomesAreDistinguishable ==
    (RunReturned /\ maxiterations >= 1) =>
        /\ ending \in {"converged", "maxiterations", "aborted"}
        /\ ending = "converged" => Reports = {ConvergedMessage(variant)}
        /\ ending = "maxiterations" => Reports = {NotConvergedMessage(variant)}
        /\ ending = "aborted" =>
             /\ Reports # {}
             /\ Reports \cap {ConvergedMessage(variant), NotConvergedMessage(variant)} = {}

\* C9: on every abort path, a failed Jacobian or a line search (or trial
\* ladder) without an acceptable point, the iteration under way is committed
\* before run() returns and the report says which phase failed.
C9_AbortCommitsIteration ==
    (RunReturned /\ ending = "aborted") =>
        /\ Len(iterations) = loopIndex + 1
        /\ currentIteration = <<>>
        /\ \/ JacobiErrorMessage \in Reports
           \/ NoStepMessage(variant) \in Reports

\* S / S_first < minReduction for the iteration under way
BelowMinReduction ==
    /\ first_S > 0
    /\ S * minreduction[2] < minreduction[1] * first_S

GuessReplaced == pc \in {"linesearch", "trial", "ladder"} /\ pc' = "iterate"

\* the point that replaces the guess is a trial point of the iteration whose
\* evaluation finished: the point a line search returned with the norm of a
\* finished trial, or the point at nextguess in the trial batch
ReplacedByFinishedTrial ==
    GuessReplaced =>
        /\ new_S' \in NormValues
        /\ IF pc = "linesearch"
           THEN /\ lsReturn.status = "point"
                /\ new_S' = lsReturn.norm
                /\ << lsReturn.alpha, lsReturn.norm >> =
                     IF lsKind = "Linear" THEN << overall_minalpha, overall_minnorm >>
                     ELSE round_min
           ELSE /\ nextguess' \in 1..Len(costs')
                /\ costs'[nextguess'] # Errored
                /\ new_S' = costs'[nextguess']

\* C12: in every optimizer and for every pattern of failing evaluations,
\* the guess is only ever replaced by a trial point whose own evaluation in
\* that iteration finished; a trial point whose evaluation failed is never
\* taken as the next guess.
C12_GuessReplacedByFinishedTrial == [][ReplacedByFinishedTrial]_vars

\* a ladder batch whose first trial failed and whose second was accepted
C12_Witness ==
    /\ variant = "LevMar"
    /\ pc = "iterate"
    /\ batches >= 3
    /\ nextguess = 2
    /\ costs[1] = Errored
    /\ new_S = costs[2]

\* the trials of the last batch that finished with a cost below S
Reducing == {z \in 1..Len(costs) : costs[z] # Errored /\ costs[z] < S}

\* C17: in every Levenberg-Marquardt iteration, in the batch of three
\* candidates and in each ladder batch (both in order of growing lambda),
\* the accepted candidate is the one with the smallest lambda among the
\* evaluated candidates of the batch that reduce the cost below S.
C17_SmallestReducingLambdaAccepted ==
    (variant = "LevMar" /\ nextguess # 0)
        => /\ nextguess \in Reducing
           /\ \A y \in Reducing : nextguess <= y

\* C18: in every Gained Levenberg-Marquardt iteration the presteps+1 ladder
\* points are evaluated in one batch, the accepted point is the first one
\* in ladder order whose gain ratio is positive (its cost is below S) even
\* when a later one has a lower cost, and when all are evaluated and none
\* has a positive gain ratio the iteration aborts.
C18_FirstPositiveGainAccepted ==
    (variant = "GainedLevMar" /\ costs # <<>>)
        => /\ Len(costs) = presteps + 1
           /\ batches = 2
           /\ nextguess # 0
                => /\ nextguess \in Reducing
                   /\ \A y \in Reducing : nextguess <= y
                   /\ ending \notin {"aborted", "raised"}
                   /\ new_S = costs[nextguess]
           /\ (\A z \in 1..Len(costs) : costs[z] # Errored)
                => IF Reducing = {}
                   THEN nextguess = 0 /\ pc = "done" /\ ending = "aborted"
                   ELSE nextguess # 0

\* the first ladder point is accepted although the second has a lower cost
C18_Witness ==
    /\ variant = "GainedLevMar"
    /\ pc = "iterate"
    /\ nextguess = 1
    /\ costs[2] # Errored
    /\ costs[2] < costs[1]

\* C19: in the Levenberg-Marquardt and Gained Levenberg-Marquardt
\* optimizers, when some but not all trials of a batch fail, the iteration
\* reaches its decision from the surviving trials without raising: no point
\* is accepted only when no surviving trial reduces the cost.
C19_DecisionFromSurvivingTrials ==
    (/\ variant \in {"LevMar", "GainedLevMar"}
     /\ \E z \in 1..Len(costs) : costs[z] = Errored
     /\ \E z \in 1..Len(costs) : costs[z] # Errored)
        => /\ ending # "raised"
           /\ nextguess = 0 => Reducing = {}
           /\ nextguess # 0 => costs[nextguess] # Errored

\* C28: after every accepted Levenberg-Marquardt step, among the initial
\* three candidates or in a ladder batch of any index, the lambda carried
\* into the next iteration and recorded as the "lambda" metric is the
\* damping the accepted point was computed with.
C28_CarriedLambdaIsAcceptedDamping ==
    (variant = "LevMar" /\ nextguess # 0) => lam = accepted_lam

\* C20: for any Measurement m (a GenericEvaluation with any non-empty
\* times and data, repeated times and several segments included, or a
\* FreeSurfaceTimeDependentEvaluation), m.getNumpyArrayLike(m) returns
\* m.getNumpyArray(), element for element.
C20_ResamplingToSelfIsIdentity ==
    arrayLike # NotAskedYet => arrayLike = ReturnArray(getNumpyArray(measurement))

\* the number of time segments of a measurement
Segments(m) == Cardinality(split_indices(m.times))

\* C21: for any two GenericEvaluations whose numbers of time segments
\* differ, in either direction (a single-segment source resampled onto a
\* multi-segment target included), getNumpyArrayLike raises
\* IncompatibleFormatError and returns no vector.
C21_SegmentMismatchIsIncompatible ==
    (arrayLike # NotAskedYet /\ Segments(measurement) # Segments(toFormat))
        => arrayLike = RaiseError("IncompatibleFormatError")

\* the times of a series increase
Increasing(times) == \A k \in 2..Len(times) : times[k - 1] < times[k]

\* the reference resampling of a series with increasing times at time t:
\* the sample at t, else the nearest edge sample outside the range of the
\* series, else the line through the two samples around t
ReferenceValue(series, at) ==
    LET count == Len(series.times)
    IN  IF \E idx \in 1..count : series.times[idx] = at
        THEN RInt(series.data[CHOOSE idx \in 1..count : series.times[idx] = at][1])
        ELSE IF at < series.times[1] THEN RInt(series.data[1][1])
        ELSE IF at > series.times[count] THEN RInt(series.data[count][1])
        ELSE LET idx == CHOOSE b \in 1..(count - 1) :
                                series.times[b] < at /\ at < series.times[b + 1]
             IN  RNorm(series.data[idx][1] * (series.times[idx + 1] - series.times[idx])
                         + (series.data[idx + 1][1] - series.data[idx][1]) * (at - series.times[idx]),
                       series.times[idx + 1] - series.times[idx])

ReferenceArray(series, grid) ==
    ReturnArray([j \in 1..Len(grid.times) |-> ReferenceValue(series, grid.times[j])])

\* C22 as stated: for a source series with increasing times and any target
\* time grid, getNumpyArrayLike returns for each target time the value of
\* the reference resampling, one entry per target sample.
C22_ResamplesAsReferenceOnAnyGrid ==
    (arrayLike # NotAskedYet /\ Increasing(measurement.times))
        => arrayLike = ReferenceArray(measurement, toFormat)

\* C22: for a source series with increasing times and a target time grid
\* whose times never decrease, getNumpyArrayLike returns for each target
\* time the value of the reference resampling (the source value at a source
\* sample time, the linear interpolation between the two bracketing samples
\* inside the range, the first or last value outside it), one entry per
\* target sample.
C22_ResamplesAsReference ==
    (arrayLike # NotAskedYet /\ Increasing(measurement.times) /\ Segments(toFormat) = 1)
        => arrayLike = ReferenceArray(measurement, toFormat)

\* the series 0 at time 0, 1 at time 3, resampled at a sample time and at
\* two times between the samples
C22_Witness ==
    /\ measurement.times = <<0, 3>>
    /\ measurement.data = << <<0>>, <<1>> >>
    /\ toFormat.times = <<0, 1, 2>>
    /\ arrayLike = ReturnArray(<< <<0, 1>>, <<1, 3>>, <<2, 3>> >>)

\* the location sets of the two measurements are incompatible
IncompatibleLocations ==
    \/ Len(measurement.locations) # Len(toFormat.locations)
    \/ \E loc \in 1..Len(measurement.locations) :
            LocationDiffers(measurement, toFormat, loc)

\* C23: for any two free-surface measurements (dimension 2 or 3) whose
\* location sets are incompatible (different location counts, or a
\* coordinate differing by more than the 0.001 tolerance),
\* FreeSurfaceTimeDependentEvaluation.getNumpyArrayLike raises
\* IncompatibleFormatError, and no other error, and returns no vector.
C23_IncompatibleLocationsRaise ==
    (arrayLike # NotAskedYet /\ IncompatibleLocations)
        => arrayLike = RaiseError("IncompatibleFormatError")

\* the committed records as a reader finds them
History(its, h) == [k \in 1..Len(its) |-> View(its[k], h)]

\* no step drops or changes a committed record, and a commit appends one
\* record with the current metrics and empties the current metrics
HistoryStep ==
    /\ Len(iterations') >= Len(iterations)
    /\ SubSeq(History(iterations', heap'), 1, Len(iterations)) = History(iterations, heap)
    /\ CommitIteration =>
            /\ Len(iterations') = Len(iterations) + 1
            /\ View(iterations'[Len(iterations')], heap') = View(currentIteration, heap)
            /\ currentIteration' = <<>>

\* C24: the iteration history of the recorder is append-only and immutable:
\* after any sequence of addMetric, addEvaluations, addRunMetadata, log and
\* commitIteration calls, and any later change by the caller of objects it
\* passed to addMetric, the number of committed records never decreases and
\* every committed record is unchanged; commitIteration appends exactly one
\* record holding the current metrics and leaves the current metrics empty.
C24_HistoryIsAppendOnly == [][HistoryStep]_vars

\* an object was passed to addMetric, committed, and then changed
C24_Witness ==
    /\ Len(iterations) = 2
    /\ "residualnorm" \in DOMAIN iterations[1]
    /\ "evaluations" \in DOMAIN iterations[1]
    /\ "residualnorm" \in DOMAIN iterations[2]
    /\ View(iterations[1], heap)["residualnorm"] # View(iterations[2], heap)["residualnorm"]
    /\ "residualnorm" \in DOMAIN currentIteration
    /\ View(currentIteration, heap)["residualnorm"] # View(iterations[2], heap)["residualnorm"]

\* C30: a Result constructed without a filename is a usable recorder:
\* log(text) appends the entry to logentries and returns without raising.
C30_LogWithoutFilename ==
    (filename = "None" /\ logentries # <<>>) => error # "TypeError"

\* C25: an Optimizer constructed with epsilon < 0 uses the default good
\* guess, the square root of the machine precision, as its
\* finite-differencing epsilon in getJacobiMatrix, not the negative value.
C25_NegativeEpsilonBecomesGoodGuess ==
    (RLess(epsilon, Zero) /\ constructed # "no")
        => /\ constructed = "yes"
           /\ finite_differencing_epsilon = GoodGuess
           /\ jacobi_batch # <<>> =>
                    jacobi_batch = neededevaluationsAt(point, differencing, GoodGuess)

\* the coordinates in which a point of the batch differs from the base point
Perturbed(k) == {c \in 1..Len(point) : jacobi_batch[k][c] # point[c]}

\* C26: for a point of length p, getJacobiMatrix issues exactly one evaluate
\* call; its batch is the base point first, then p perturbed points
\* (forward, pure_forward) or 2p (central, pure_central); each perturbed
\* point differs from the base point in exactly one coordinate, also where
\* that coordinate is zero; the evaluation returned with the matrix is the
\* one of the base point.
C26_JacobiBatch ==
    jacobi_batch # <<>> =>
        /\ evaluate_calls = 1
        /\ jacobi_batch[1] = point
        /\ Len(jacobi_batch) =
                1 + (IF differencing \in {"forward", "pure_forward"} THEN 1 ELSE 2) * Len(point)
        /\ \A k \in 2..Len(jacobi_batch) : Cardinality(Perturbed(k)) = 1
        /\ \A c \in 1..Len(point) :
                Cardinality({k \in 2..Len(jacobi_batch) : Perturbed(k) = {c}}) =
                    IF differencing \in {"forward", "pure_forward"} THEN 1 ELSE 2
        /\ ~jacobi_result.none => jacobi_result.evaluation = 1

\* a batch of relative forward steps at a point with a zero coordinate
C26_Witness ==
    /\ differencing = "forward"
    /\ point = << Zero, RInt(2) >>
    /\ finite_differencing_epsilon = << 1, 10 >>
    /\ jacobi_batch = << point, << << 1, 10 >>, RInt(2) >>, << Zero, << 11, 5 >> >> >>
    /\ ~jacobi_result.none

(***************************************************************************)
(* Specifications                                                          *)
(***************************************************************************)
\* the evaluator under any sequence of evaluate calls
InitEvaluatorAlone ==
    /\ NoJacobiMatrixYet
    /\ InitEvaluators
    /\ InitEvaluator
    /\ LineSearchIdle
    /\ InitRecorder
    /\ OptimizerIdle
    /\ NoMeasurementYet

SpecEvaluator == InitEvaluatorAlone /\ [][NextEvaluator]_vars

\* the trial batches one doLineSearch call has issued: a round that raised
\* had issued its batch before l was counted up
TrialBatches == IF lsReturn.status = "raised" THEN l + 1 ELSE l

\* the max_iterations the running line search compares l with
LineSearchBudget ==
    IF lsKind = "Backtracking" THEN BacktrackingMaxIterations ELSE max_iterations

\* the trial batches of the running Levenberg-Marquardt iteration (batches
\* counts the Jacobian batch of the iteration as well)
LevMarTrialBatches == IF batches = 0 THEN 0 ELSE batches - 1

\* C27: for every configured budget, a run issues at most maxiterations
\* Jacobian batches, a doLineSearch call issues at most max_iterations trial
\* batches, and a Levenberg-Marquardt iteration issues at most
\* 1 + P_iteration_count trial batches.
C27_WithinIterationBudgets ==
    /\ loopIndex + 1 <= maxiterations
    /\ TrialBatches <= LineSearchBudget
    /\ (variant = "LevMar") => (LevMarTrialBatches <= 1 + P_iteration_count)

\* one doLineSearch call with any residual norm and any slope
InitLineSearch ==
    /\ NoJacobiMatrixYet
    /\ InitEvaluators
    /\ InitEvaluator
    /\ evKind = "Local"
    /\ lsKind \in LineSearchKinds
    /\ r_dot_r_half \in NormValues
    /\ grad_dot_dir \in GradDotDirValues
    /\ low = <<0, 1>>
    /\ top = <<1, 1>>
    /\ l = 0
    /\ overall_minnorm = Inf
    /\ overall_minalpha = <<-1, 1>>
    /\ highest_power = highest_power_init
    /\ alpha = <<1, 1>>
    /\ round_min = NoTrial
    /\ lsReturn = Running
    /\ max_iterations = LsMaxIterations
    /\ InitRecorder
    /\ OptimizerIdle
    /\ NoMeasurementYet

NextLineSearch ==
    \/ LinearLineSearchRound /\ UNCHANGED << vars_ev, iterations, logentries, vars_opt, vars_res, vars_obj, vars_jac, vars_two >>
    \/ LogarithmicLineSearchRound /\ UNCHANGED << vars_ev, iterations, logentries, vars_opt, vars_res, vars_obj, vars_jac, vars_two >>
    \/ BacktrackingLineSearchRound /\ UNCHANGED << vars_ev, iterations, logentries, vars_opt, vars_res, vars_obj, vars_jac, vars_two >>

SpecLineSearch == InitLineSearch /\ [][NextLineSearch]_vars

\* one doLineSearch call of a line search constructed with any
\* max_iterations from 0 on
InitBudget ==
    /\ NoJacobiMatrixYet
    /\ InitEvaluators
    /\ InitEvaluator
    /\ evKind = "Local"
    /\ lsKind \in LineSearchKinds
    /\ max_iterations \in 0..LsMaxIterations
    /\ r_dot_r_half \in NormValues
    /\ grad_dot_dir \in GradDotDirValues
    /\ low = <<0, 1>>
    /\ top = <<1, 1>>
    /\ l = 0
    /\ overall_minnorm = Inf
    /\ overall_minalpha = <<-1, 1>>
    /\ highest_power = highest_power_init
    /\ alpha = <<1, 1>>
    /\ round_min = NoTrial
    /\ lsReturn = Running
    /\ InitRecorder
    /\ OptimizerIdle
    /\ NoMeasurementYet

SpecBudget == InitBudget /\ [][NextLineSearch]_vars

\* evaluate and reset calls on the Evaluator objects, in any order
InitEvaluatorObjects ==
    /\ NoJacobiMatrixYet
    /\ InitEvaluators
    /\ InitEvaluator
    /\ evKind = "Local"
    /\ LineSearchIdle
    /\ InitRecorder
    /\ OptimizerIdle
    /\ NoMeasurementYet

NextEvaluatorObjects ==
    \/ ObjectEvaluate
    \/ ObjectReset

SpecEvaluatorObjects == InitEvaluatorObjects /\ [][NextEvaluatorObjects]_vars

\* an optimizer run under any outcome of every evaluation it asks for
Init ==
    /\ NoJacobiMatrixYet
    /\ InitEvaluators
    /\ InitEvaluator
    /\ evKind = "Local"
    /\ LineSearchIdle
    /\ InitRecorder
    /\ InitOptimizer
    /\ NoMeasurementYet

\* a round of the line search inside run() is one more evaluate call
InRun(round) ==
    /\ round
    /\ batches' = batches + 1
    /\ UNCHANGED << vars_ev, iterations, logentries, vars_cfg, vars_run, vars_res, vars_obj, vars_jac, vars_two >>

Next ==
    \/ Iterate
    \/ LoopExit
    \/ InRun(LinearLineSearchRound)
    \/ InRun(LogarithmicLineSearchRound)
    \/ InRun(BacktrackingLineSearchRound)
    \/ LineSearchReturned
    \/ LevMarTrialBatch
    \/ LevMarLadderBatch
    \/ GainedLevMarTrialBatch

Spec == Init /\ [][Next]_vars

\* any measurement, resampled to its own format
InitMeasurement ==
    /\ NoJacobiMatrixYet
    /\ InitEvaluators
    /\ InitEvaluator
    /\ evKind = "Local"
    /\ LineSearchIdle
    /\ InitRecorder
    /\ OptimizerIdle
    /\ measurement \in Measurements
    /\ toFormat = measurement
    /\ arrayLike = NotAskedYet

NextMeasurement ==
    \/ GenericEvaluationToSelf
    \/ FreeSurfaceEvaluationToSelf

SpecMeasurement == InitMeasurement /\ [][NextMeasurement]_vars

\* an optimizer of any differencing is constructed and asked for one
\* Jacobi matrix
InitJacobiAlone ==
    /\ InitEvaluator
    /\ evKind = "Local"
    /\ LineSearchIdle
    /\ InitRecorder
    /\ NoMeasurementYet
    /\ InitEvaluators
    /\ InitJacobi
    /\ variant = "GaussNewton"
    /\ linesearchmethod = "Linear"
    /\ differencing \in DifferencingKinds
    /\ maxiterations = 0
    /\ weightGiven = FALSE
    /\ n = LenGuess + 1
    /\ pc = "idle"
    /\ loopIndex = -1
    /\ i = Unbound
    /\ S = 0
    /\ first_S = Unassigned
    /\ last_S = Unassigned
    /\ new_S = Unassigned
    /\ lam = 0
    /\ accepted_lam = 0
    /\ zl = 0
    /\ jacobi_evaluations = <<>>
    /\ jacobi_result = JacobiNone
    /\ batches = 0
    /\ costs = <<>>
    /\ nextguess = 0
    /\ returned = "running"
    /\ ending = "none"

NextJacobi ==
    \/ OptimizerInit
    \/ GetJacobiMatrix

SpecJacobi == InitJacobiAlone /\ [][NextJacobi]_vars

\* a Result and the calls of its caller, in any order
InitResultAlone ==
    /\ NoJacobiMatrixYet
    /\ InitEvaluators
    /\ InitEvaluator
    /\ evKind = "Local"
    /\ LineSearchIdle
    /\ OptimizerIdle
    /\ NoMeasurementYet
    /\ InitResult

NextResult ==
    \/ AddRunMetadata
    \/ AddEvaluations
    \/ AddMetric
    \/ CommitIteration
    \/ Log
    \/ MutateObject

SpecResult == InitResultAlone /\ [][NextResult]_vars

\* any GenericEvaluation, resampled to the format of any other
InitResample ==
    /\ NoJacobiMatrixYet
    /\ InitEvaluators
    /\ InitEvaluator
    /\ evKind = "Local"
    /\ LineSearchIdle
    /\ InitRecorder
    /\ OptimizerIdle
    /\ measurement \in {m \in Measurements : m.kind = "GenericEvaluation"}
    /\ toFormat \in {m \in Measurements : m.kind = "GenericEvaluation"}
    /\ arrayLike = NotAskedYet

NextResample == GenericEvaluationToTarget

SpecResample == InitResample /\ [][NextResample]_vars

\* any free-surface measurement, resampled to the format of any other of
\* its dimension
InitSurface ==
    /\ NoJacobiMatrixYet
    /\ InitEvaluators
    /\ InitEvaluator
    /\ evKind = "Local"
    /\ LineSearchIdle
    /\ InitRecorder
    /\ OptimizerIdle
    /\ measurement \in SurfaceMeasurements
    /\ toFormat \in {m \in SurfaceTargets : m.dimension = measurement.dimension}
    /\ arrayLike = NotAskedYet

NextSurface == FreeSurfaceEvaluationToTarget

SpecSurface == InitSurface /\ [][NextSurface]_vars

====
